---- MODULE Spec2Model ----
(***************************************************************************)
(* A model of gran, a procedural audio synthesis engine (Rust).            *)
(*                                                                         *)
(*   - the real-time player: the audio callback of build_stream, with its  *)
(*     three mutexes (grain_position, current_grain, sounds);              *)
(*   - the Oscillator voice: input queue, state machine, ADSR, effects;    *)
(*   - the input iterators with "repeat after delay";                      *)
(*   - the Sample player and the normalisation of a sample's length;       *)
(*   - the effects (Volume, Filter, Saturation, TapeDelay), the builders;  *)
(*   - Number and the waveforms of lfo.rs and oscillators.rs;              *)
(*   - clone_box and play_composition over an explicit heap of Boxes.      *)
(*                                                                         *)
(* Numbers.  An f32 is modelled in fixed point: the integer v stands for   *)
(* the value v / Q.  Times (seconds) are fixed-point values as well, so    *)
(* one sample period is Dt == Q \div SAMPLE_RATE.                          *)
(***************************************************************************)
EXTENDS Integers, Sequences, FiniteSets, TLC

(***************************************************************************)
(* Bounds of the model.                                                    *)
(***************************************************************************)
\* sound.rs:3 sets SAMPLES_PER_GRAIN to 512; the model runs the same code on
\* short grains.
SAMPLES_PER_GRAIN == 2
\* fixed-point resolution: the integer Q stands for 1.0
Q == 100
\* callback invocations that may overlap (cpal drives one at a time; the
\* mutexes of build_stream admit more, and the model lets them interleave)
NumCallbacks == 2
\* sounds in a composition
MaxSounds == 2
\* frames of one callback buffer
MaxBuffer == 3
\* frames played in a run
MaxFrames == 4

\* grains an Oscillator or a Sample is asked for in a run
MaxGrains == 5

\* the device's sample rate (player::SAMPLE_RATE, read at every
\* `1.0 / *SAMPLE_RATE as f32`); the model runs at 4 samples per second
SAMPLE_RATE == 4

\* Option<T>: None, Some(x)
None == <<>>

Some(x) == <<x>>

\* `let v = x; Body(v)`: x is evaluated once and its value handed to Body
With(x, Body(_)) == CHOOSE r \in {Body(v) : v \in {x}} : TRUE

(***************************************************************************)
(* Fixed-point arithmetic.                                                 *)
(***************************************************************************)
Abs(x) == IF x < 0 THEN -x ELSE x

Sign(x) == IF x < 0 THEN -1 ELSE IF x > 0 THEN 1 ELSE 0

\* a / b rounded toward zero, b > 0
TruncDiv(a, b) == Sign(a) * (Abs(a) \div b)

\* the product of two fixed-point values
FMul(a, b) == TruncDiv(a * b, Q)

\* the quotient of two fixed-point values, b # 0
FDiv(a, b) == Sign(b) * TruncDiv(a * Q, Abs(b))

\* the fixed-point value n / d
Frac(n, d) == TruncDiv(n * Q, d)

RECURSIVE SumSeq(_)
SumSeq(s) == IF s = <<>> THEN 0 ELSE Head(s) + SumSeq(Tail(s))

Min(a, b) == IF a < b THEN a ELSE b

Max(a, b) == IF a > b THEN a ELSE b

\* a sequence of n copies of x (vec![x; n])
Repeat(x, n) == [i \in 1..n |-> x]

\* Rust's a % b on floats: the remainder has the sign of a
FRem(a, b) == Sign(a) * (Abs(a) % b)

\* f32::clamp
Clamp(x, lo, hi) == IF x < lo THEN lo ELSE IF x > hi THEN hi ELSE x

\* one sample period, 1.0 / SAMPLE_RATE
Dt == Q \div SAMPLE_RATE

\* a time of k sample periods
Ticks(k) == k * Dt

\* sin of an angle given in turns (x / Q of a full circle): the parabola
\* through the zeros and extrema of the sine, which it shares with it
\* together with its sign, symmetry and period
SinTurns(x) ==
    LET xm == x % Q
    IN  IF 2 * xm <= Q THEN (8 * xm * (Q - 2 * xm)) \div Q
        ELSE -((8 * (2 * xm - Q) * (Q - xm)) \div Q)

\* tanh: the Pade approximant y (27 + y^2) / (27 + 9 y^2) clamped to [-1, 1];
\* odd, increasing, zero exactly at zero, bounded by 1 like tanh
Tanh(y) ==
    LET y2 == FMul(y, y)
    IN  Clamp(FDiv(FMul(y, 27 * Q + y2), 27 * Q + 9 * y2), -Q, Q)

\* exp(-x): 1 / (1 + x + x^2 / 2) for x >= 0 and 1 + |x| + x^2 / 2 below;
\* positive, decreasing, 1 exactly at 0; from x = 10 on the value is less
\* than one unit of the fixed point
ExpNeg(x) ==
    IF x >= 10 * Q THEN 0
    ELSE LET t == Q + Abs(x) + (FMul(x, x) \div 2)
         IN  IF x >= 0 THEN FDiv(Q, t) ELSE t

\* 2 pi
TwoPi == Frac(628, 100)

VARIABLES
    \* ---- player.rs, build_stream ----
    sounds,               \* Vec<Box<dyn Sound>> behind the sounds mutex
    current_grain,        \* Vec<f32> behind the current_grain mutex
    grain_position,       \* usize behind the grain_position mutex
    grain_position_lock,  \* holder of each mutex, 0 when free
    current_grain_lock,
    sounds_lock,
    pc,                   \* where each callback invocation stands
    frames_left,          \* frames of data still to fill, per invocation
    sample,               \* the local `sample` of the frame in progress
    data,                 \* the frames written by the invocation so far
    out,                  \* history: the samples taken for frames, in order
    mixed,                \* history: the grains combine_grains returned
    calls,                \* history: next_grain calls made on each sound
    \* ---- oscillator.rs ----
    osc,                  \* the Oscillator
    osc_grain,            \* the Grain its last next_grain returned
    after_inputs,         \* history: the Oscillator as update_inputs left it
                          \* in the last next_grain
    handled,              \* history: the inputs handled, with the time of
                          \* handling
    panicked,             \* a panic (failed assert!, unwrap on None) occurred
    \* ---- oscillator/input.rs, sample/input.rs ----
    osc_inputs,           \* an OscillatorInputIterator
    sample_inputs,        \* a SampleInputIterator
    now,                  \* the time the client of the iterators has reached
    given,                \* history: the inputs the iterators were built from
    delivered,            \* history: per iterator, the events next returned
                          \* (how many, and the last with the time it came at)
    \* ---- sample.rs ----
    smp,                  \* the Sample
    smp_grain,            \* the Grain its last next_grain returned
    since_trigger,        \* history: what next_sample returned since the
                          \* last Trigger was handled
    \* ---- sample.rs, normalize_sample_length ----
    nrm,                  \* a clip, a target length, and what the function
                          \* returned for them
    \* ---- effects.rs, one effect on its own ----
    fx,                   \* the effect (a Filter or a TapeDelay)
    fx_out,               \* history: the last process_sample call
    \* ---- the builders ----
    bld,                  \* a builder, and what its build returned
    \* ---- oscillator/lfo.rs, oscillators.rs: a value on its own ----
    num,                  \* the Number (or the waveform) evaluated
    num_out,              \* history: what its next_value calls returned
    \* ---- the Clone impls and clone_box ----
    twin,                 \* a Sound or Effect, a clone of it, and what the
                          \* two returned since
    \* ---- player.rs, play_composition ----
    heap,                 \* the Boxes allocated: a Sound or an Effect each
    play                  \* the composition, the sounds of the stream, and
                          \* the last call made on a sound

playerVars == <<sounds, current_grain, grain_position, grain_position_lock,
                current_grain_lock, sounds_lock, pc, frames_left, sample,
                data, out, mixed, calls>>

oscVars == <<osc, osc_grain, after_inputs, handled, panicked>>

iterVars == <<osc_inputs, sample_inputs, now, given, delivered>>

smpVars == <<smp, smp_grain, since_trigger>>

valVars == <<num, num_out, twin>>

heapVars == <<heap, play>>

auxVars == <<nrm, fx, fx_out, bld, valVars, heapVars>>

vars == <<playerVars, oscVars, iterVars, smpVars, auxVars>>

\* the value of a component's variables in the runs of another component
Absent == <<>>

PlayerAbsent ==
    /\ sounds = Absent /\ current_grain = Absent /\ grain_position = 0
    /\ grain_position_lock = 0 /\ current_grain_lock = 0 /\ sounds_lock = 0
    /\ pc = Absent /\ frames_left = Absent /\ sample = Absent /\ data = Absent
    /\ out = Absent /\ mixed = Absent /\ calls = Absent

OscAbsent ==
    /\ osc = Absent /\ osc_grain = Absent /\ after_inputs = Absent
    /\ handled = Absent

IterAbsent ==
    /\ osc_inputs = Absent /\ sample_inputs = Absent /\ now = 0
    /\ given = Absent /\ delivered = Absent

SmpAbsent ==
    /\ smp = Absent /\ smp_grain = Absent /\ since_trigger = Absent

NrmAbsent == nrm = Absent

FxAbsent == fx = Absent /\ fx_out = Absent

BldAbsent == bld = Absent

ValAbsent == num = Absent /\ num_out = Absent /\ twin = Absent

HeapAbsent == heap = Absent /\ play = Absent

AuxAbsent == NrmAbsent /\ FxAbsent /\ BldAbsent /\ ValAbsent /\ HeapAbsent

(***************************************************************************)
(* sound.rs: the Sound the player streams (a looping Sample with Gains).   *)
(***************************************************************************)
\* Gain::apply: every sample of the grain times the factor
Gain_apply(factor, grain) == [i \in DOMAIN grain |-> FMul(grain[i], factor)]

RECURSIVE ApplyGains(_, _)
ApplyGains(effects, grain) ==
    IF effects = <<>> THEN grain
    ELSE ApplyGains(Tail(effects), Gain_apply(Head(effects), grain))

\* Sample::next_sample (sound.rs): index = (index + 1) % len; samples[index]
LoopSample_next_sample(s) ==
    LET i == (s.index + 1) % Len(s.samples)
    IN  [value |-> s.samples[i + 1], self |-> [s EXCEPT !.index = i]]

RECURSIVE LoopSample_fill(_, _)
LoopSample_fill(s, n) ==
    IF n = 0 THEN [grain |-> <<>>, self |-> s]
    ELSE LET r    == LoopSample_next_sample(s)
             rest == LoopSample_fill(r.self, n - 1)
         IN  [grain |-> <<r.value>> \o rest.grain, self |-> rest.self]

\* Sample::next_grain (sound.rs): SAMPLES_PER_GRAIN samples, then the effects
LoopSample_next_grain(s) ==
    LET r == LoopSample_fill(s, SAMPLES_PER_GRAIN)
    IN  [grain |-> ApplyGains(s.effects, r.grain), self |-> r.self]

(***************************************************************************)
(* player.rs                                                               *)
(***************************************************************************)
\* combine_grains: the sample-wise sum of the grains, each sum then divided
\* by the number of grains
combine_grains(grains) ==
    [i \in 1..Len(grains[1]) |->
        TruncDiv(SumSeq([g \in 1..Len(grains) |-> grains[g][i]]), Len(grains))]

Callbacks == 1..NumCallbacks

\* the sounds a composition is built from: a clip without effects and a
\* clip with a Gain(2.0)
LoopSamples ==
    { [samples |-> <<12, 24, 36>>, index |-> 0, effects |-> <<>>],
      [samples |-> <<-12, 48>>, index |-> 0, effects |-> <<2 * Q>>] }

PlayerInit ==
    /\ \E n \in 1..MaxSounds : sounds \in [1..n -> LoopSamples]
    /\ current_grain = <<>>
    /\ grain_position = 0
    /\ grain_position_lock = 0
    /\ current_grain_lock = 0
    /\ sounds_lock = 0
    /\ pc = [t \in Callbacks |-> "idle"]
    /\ frames_left = [t \in Callbacks |-> 0]
    /\ sample = [t \in Callbacks |-> 0]
    /\ data = [t \in Callbacks |-> <<>>]
    /\ out = <<>>
    /\ mixed = <<>>
    /\ calls = [s \in DOMAIN sounds |-> 0]
    /\ OscAbsent /\ IterAbsent /\ SmpAbsent /\ AuxAbsent
    /\ panicked = FALSE

\* frames the running invocations have still to take a sample for
Pending ==
    Cardinality({t \in Callbacks : pc[t] \in {"lock_pos", "lock_grain", "check",
                     "lock_sounds", "next_grain", "drop_sounds", "read"}})
    + SumSeq([t \in Callbacks |->
                 IF pc[t] = "idle" THEN 0 ELSE frames_left[t] - 1])

\* the audio host calls the callback with a buffer of n frames
Invoke(t, n) ==
    /\ pc[t] = "idle"
    /\ Len(out) + Pending + n <= MaxFrames
    /\ pc' = [pc EXCEPT ![t] = "lock_pos"]
    /\ frames_left' = [frames_left EXCEPT ![t] = n]
    /\ data' = [data EXCEPT ![t] = <<>>]
    /\ UNCHANGED <<oscVars, iterVars, smpVars, auxVars, sounds, current_grain, grain_position, grain_position_lock,
                   current_grain_lock, sounds_lock, sample, out, mixed, calls>>

\* player.rs:88  let mut grain_pos = grain_position.lock().unwrap();
LockPos(t) ==
    /\ pc[t] = "lock_pos"
    /\ grain_position_lock = 0
    /\ grain_position_lock' = t
    /\ pc' = [pc EXCEPT ![t] = "lock_grain"]
    /\ UNCHANGED <<oscVars, iterVars, smpVars, auxVars, sounds, current_grain, grain_position, current_grain_lock,
                   sounds_lock, frames_left, sample, data, out, mixed, calls>>

\* player.rs:89  let mut current_grain_guard = current_grain.lock().unwrap();
LockGrain(t) ==
    /\ pc[t] = "lock_grain"
    /\ current_grain_lock = 0
    /\ current_grain_lock' = t
    /\ pc' = [pc EXCEPT ![t] = "check"]
    /\ UNCHANGED <<oscVars, iterVars, smpVars, auxVars, sounds, current_grain, grain_position, grain_position_lock,
                   sounds_lock, frames_left, sample, data, out, mixed, calls>>

\* player.rs:92  is a new grain needed?
Exhausted == current_grain = <<>> \/ grain_position >= Len(current_grain)

\* mutant: a new grain is fetched for every frame
CheckGrain_EveryFrame(t) ==
    /\ pc[t] = "check"
    /\ pc' = [pc EXCEPT ![t] = "lock_sounds"]
    /\ UNCHANGED <<oscVars, iterVars, smpVars, auxVars, sounds, current_grain, grain_position, grain_position_lock,
                   current_grain_lock, sounds_lock, frames_left, sample, data,
                   out, mixed, calls>>

CheckGrain(t) ==
    /\ pc[t] = "check"
    /\ pc' = [pc EXCEPT ![t] = IF Exhausted THEN "lock_sounds" ELSE "read"]
    /\ UNCHANGED <<oscVars, iterVars, smpVars, auxVars, sounds, current_grain, grain_position, grain_position_lock,
                   current_grain_lock, sounds_lock, frames_left, sample, data,
                   out, mixed, calls>>

\* player.rs:93  let mut sounds_guard = sounds.lock().unwrap();
LockSounds(t) ==
    /\ pc[t] = "lock_sounds"
    /\ sounds_lock = 0
    /\ sounds_lock' = t
    /\ pc' = [pc EXCEPT ![t] = "next_grain"]
    /\ UNCHANGED <<oscVars, iterVars, smpVars, auxVars, sounds, current_grain, grain_position, grain_position_lock,
                   current_grain_lock, frames_left, sample, data, out, mixed, calls>>

\* mutant: the cursor is not reset when a new grain is stored
NextGrains_NoReset(t) ==
    /\ pc[t] = "next_grain"
    /\ LET res    == [s \in DOMAIN sounds |-> LoopSample_next_grain(sounds[s])]
           grains == [s \in DOMAIN sounds |-> res[s].grain]
       IN  /\ sounds' = [s \in DOMAIN sounds |-> res[s].self]
           /\ current_grain' = combine_grains(grains)
           /\ mixed' = Append(mixed, combine_grains(grains))
           /\ calls' = [s \in DOMAIN sounds |-> calls[s] + 1]
    /\ pc' = [pc EXCEPT ![t] = "drop_sounds"]
    /\ UNCHANGED <<oscVars, iterVars, smpVars, auxVars, grain_position, grain_position_lock, current_grain_lock,
                   sounds_lock, frames_left, sample, data, out>>

\* player.rs:94-96  next_grain on every sound, combine, reset the cursor
NextGrains(t) ==
    /\ pc[t] = "next_grain"
    /\ LET res    == [s \in DOMAIN sounds |-> LoopSample_next_grain(sounds[s])]
           grains == [s \in DOMAIN sounds |-> res[s].grain]
       IN  /\ sounds' = [s \in DOMAIN sounds |-> res[s].self]
           /\ current_grain' = combine_grains(grains)
           /\ mixed' = Append(mixed, combine_grains(grains))
           /\ calls' = [s \in DOMAIN sounds |-> calls[s] + 1]
    /\ grain_position' = 0
    /\ pc' = [pc EXCEPT ![t] = "drop_sounds"]
    /\ UNCHANGED <<oscVars, iterVars, smpVars, auxVars, grain_position_lock, current_grain_lock, sounds_lock,
                   frames_left, sample, data, out>>

\* mutant: the sounds guard outlives the read of the sample
DropSounds_Late(t) ==
    /\ pc[t] = "drop_sounds"
    /\ pc' = [pc EXCEPT ![t] = "read"]
    /\ UNCHANGED <<oscVars, iterVars, smpVars, auxVars, sounds, current_grain, grain_position, grain_position_lock,
                   current_grain_lock, sounds_lock, frames_left, sample, data,
                   out, mixed, calls>>

\* player.rs:97  drop(sounds_guard);
DropSounds(t) ==
    /\ pc[t] = "drop_sounds"
    /\ sounds_lock' = IF sounds_lock = t THEN 0 ELSE sounds_lock
    /\ pc' = [pc EXCEPT ![t] = "read"]
    /\ UNCHANGED <<oscVars, iterVars, smpVars, auxVars, sounds, current_grain, grain_position, grain_position_lock,
                   current_grain_lock, frames_left, sample, data, out, mixed, calls>>

\* player.rs:101-107  take the sample under the cursor, advance the cursor
ReadSample(t) ==
    /\ pc[t] = "read"
    /\ LET s == IF grain_position < Len(current_grain)
                THEN current_grain[grain_position + 1]
                ELSE 0
       IN  /\ sample' = [sample EXCEPT ![t] = s]
           /\ out' = Append(out, s)
    /\ grain_position' = grain_position + 1
    /\ pc' = [pc EXCEPT ![t] = "drop_grain"]
    /\ UNCHANGED <<oscVars, iterVars, smpVars, auxVars, sounds, current_grain, grain_position_lock,
                   current_grain_lock, sounds_lock, frames_left, data, mixed, calls>>

\* player.rs:108  drop(current_grain_guard);
DropGrain(t) ==
    /\ pc[t] = "drop_grain"
    /\ current_grain_lock' = IF current_grain_lock = t THEN 0 ELSE current_grain_lock
    /\ pc' = [pc EXCEPT ![t] = "drop_pos"]
    /\ UNCHANGED <<oscVars, iterVars, smpVars, auxVars, sounds, current_grain, grain_position, grain_position_lock,
                   sounds_lock, frames_left, sample, data, out, mixed, calls>>

\* player.rs:109  drop(grain_pos);
DropPos(t) ==
    /\ pc[t] = "drop_pos"
    /\ grain_position_lock' = IF grain_position_lock = t THEN 0 ELSE grain_position_lock
    /\ pc' = [pc EXCEPT ![t] = "write"]
    /\ UNCHANGED <<oscVars, iterVars, smpVars, auxVars, sounds, current_grain, grain_position, current_grain_lock,
                   sounds_lock, frames_left, sample, data, out, mixed, calls>>

\* player.rs:111-113  the sample goes to the frame (T = f32: from_sample is
\* the identity); then the next frame of data, or the callback returns
WriteFrame(t) ==
    /\ pc[t] = "write"
    /\ data' = [data EXCEPT ![t] = Append(@, sample[t])]
    /\ frames_left' = [frames_left EXCEPT ![t] = @ - 1]
    /\ pc' = [pc EXCEPT ![t] = IF frames_left[t] > 1 THEN "lock_pos" ELSE "idle"]
    /\ UNCHANGED <<oscVars, iterVars, smpVars, auxVars, sounds, current_grain, grain_position, grain_position_lock,
                   current_grain_lock, sounds_lock, sample, out, mixed, calls>>

\* one step of the frame loop of callback invocation t
FrameStep(t) ==
    \/ LockPos(t)
    \/ LockGrain(t)
    \/ CheckGrain(t)
    \/ LockSounds(t)
    \/ NextGrains(t)
    \/ DropSounds(t)
    \/ ReadSample(t)
    \/ DropGrain(t)
    \/ DropPos(t)
    \/ WriteFrame(t)

PlayerNext ==
    \/ \E t \in Callbacks, n \in 1..MaxBuffer : Invoke(t, n)
    \/ \E t \in Callbacks : FrameStep(t)

SpecPlayer == PlayerInit /\ [][PlayerNext]_vars

(***************************************************************************)
(* Claims about the player.                                                *)
(***************************************************************************)
RECURSIVE IsSubseq(_, _)
IsSubseq(a, b) ==
    IF a = <<>> THEN TRUE
    ELSE IF b = <<>> THEN FALSE
    ELSE IF Head(a) = Head(b) THEN IsSubseq(Tail(a), Tail(b))
    ELSE IsSubseq(a, Tail(b))

\* the grain, and the index in it, that the j-th frame of the stream plays
GrainOf(j) == ((j - 1) \div SAMPLES_PER_GRAIN) + 1

IndexOf(j) == ((j - 1) % SAMPLES_PER_GRAIN) + 1

\* C1: the samples the callback takes for its frames are the mixed grains
\* laid end to end: frame j of the stream carries sample IndexOf(j) of grain
\* GrainOf(j), none skipped and none repeated, whatever the buffer lengths of
\* the invocations; and what an invocation writes to its buffer are samples
\* of that stream, in stream order.
C1_StreamIsGrainsInOrder ==
    /\ \A g \in 1..Len(mixed) : Len(mixed[g]) = SAMPLES_PER_GRAIN
    /\ \A j \in 1..Len(out) :
          /\ GrainOf(j) <= Len(mixed)
          /\ out[j] = mixed[GrainOf(j)][IndexOf(j)]
    /\ \A t \in Callbacks : IsSubseq(data[t], out)

\* a callback whose buffer is longer than a grain has returned, and the
\* stream is in its second grain or later
C1_Witness ==
    /\ Len(mixed) >= 2
    /\ Len(out) > SAMPLES_PER_GRAIN
    /\ \E t \in Callbacks : pc[t] = "idle" /\ Len(data[t]) > SAMPLES_PER_GRAIN

\* C2 (state part): every sound has had next_grain called once per mixed
\* grain, and a grain is mixed once per SAMPLES_PER_GRAIN frames taken.
C2_OncePerGrain ==
    /\ \A s \in DOMAIN sounds : calls[s] = Len(mixed)
    /\ Len(out) <= Len(mixed) * SAMPLES_PER_GRAIN
    /\ Len(mixed) > 0 => Len(out) >= (Len(mixed) - 1) * SAMPLES_PER_GRAIN
    /\ Len(mixed) > 0 /\ sounds_lock = 0 =>
          Len(out) = (Len(mixed) - 1) * SAMPLES_PER_GRAIN + grain_position

\* C2 (step part): the sounds change, and next_grain is called, only in the
\* step of a callback that holds the sounds lock at a frame where the cursor
\* has exhausted the current grain or no grain exists yet.
C2_OnlyUnderLock ==
    (sounds' # sounds \/ calls' # calls) =>
        \E t \in Callbacks :
            /\ pc[t] = "next_grain" /\ pc'[t] = "drop_sounds"
            /\ sounds_lock = t /\ current_grain_lock = t /\ grain_position_lock = t
            /\ Exhausted
            /\ \A s \in DOMAIN sounds : calls'[s] = calls[s] + 1

\* C2: next_grain is called on each sound exactly once per
\* SAMPLES_PER_GRAIN output frames, only at a frame where the cursor has
\* exhausted the current grain, and only under the sounds lock; the sounds
\* are never mutated outside that call.
C2_NextGrainDiscipline == [](C2_OncePerGrain) /\ [][C2_OnlyUnderLock]_vars

\* every sound has produced its second grain and the frames of the first
\* grain have all been played
C2_Witness ==
    /\ Len(sounds) = MaxSounds
    /\ \A s \in DOMAIN sounds : calls[s] = 2
    /\ Len(out) > SAMPLES_PER_GRAIN

\* the mutexes callback t holds
Held(t) ==
    (IF grain_position_lock = t THEN {"grain_position"} ELSE {})
    \cup (IF current_grain_lock = t THEN {"current_grain"} ELSE {})
    \cup (IF sounds_lock = t THEN {"sounds"} ELSE {})

\* the holder of the mutex callback t is about to lock (0: the mutex is
\* free, or t is not at a lock() call)
WaitsFor(t) ==
    CASE pc[t] = "lock_pos"    -> grain_position_lock
      [] pc[t] = "lock_grain"  -> current_grain_lock
      [] pc[t] = "lock_sounds" -> sounds_lock
      [] OTHER                 -> 0

\* C3: in every frame the locks are taken in the order grain_position,
\* current_grain, sounds; the sounds lock is released before the sample is
\* read from the buffer; no lock is held when the frame is written and ends;
\* and whenever a callback is inside a frame some callback can take a step
\* (no interleaving deadlocks).
C3_LockOrder ==
    /\ \A t \in Callbacks :
          /\ "sounds" \in Held(t) => "current_grain" \in Held(t)
          /\ "current_grain" \in Held(t) => "grain_position" \in Held(t)
          /\ pc[t] \in {"lock_grain"} => Held(t) = {"grain_position"}
          /\ pc[t] \in {"check", "lock_sounds", "read", "drop_grain"} =>
                Held(t) = {"grain_position", "current_grain"}
          /\ pc[t] \in {"next_grain", "drop_sounds"} =>
                Held(t) = {"grain_position", "current_grain", "sounds"}
          /\ pc[t] = "drop_pos" => Held(t) = {"grain_position"}
          /\ pc[t] \in {"idle", "lock_pos", "write"} => Held(t) = {}
    /\ (\E t \in Callbacks : pc[t] # "idle") =>
          (\E t \in Callbacks : pc[t] # "idle" /\ WaitsFor(t) = 0)

\* one callback waits for the cursor lock while another, past its
\* next_grain call, holds cursor and buffer and is about to read its sample
C3_Witness ==
    \E t, u \in Callbacks :
        /\ t # u
        /\ pc[t] = "read" /\ Len(mixed) >= 2
        /\ pc[u] = "lock_pos"

(***************************************************************************)
(* oscillator/lfo.rs: Number, LFO, WaveFunction.                           *)
(*                                                                         *)
(* A Number is [kind |-> "Number", value, plus, mul] or                    *)
(* [kind |-> "Oscillator", oscillator, plus, mul]; an LFO is               *)
(* [wave_function, phase]; a WaveFunction is [kind, frequency, amplitude,  *)
(* phase] or [kind |-> "WhiteNoise", amplitude].  An operation on a        *)
(* `&mut self` returns the new self beside its value.  rnd is what         *)
(* rand::random_range draws in the call, should a noise be asked for one.  *)
(***************************************************************************)
\* the values rand::random_range(-1.0..=1.0) may draw
NoiseValues == {-Q, 0, Q}

Number_number(value) ==
    [kind |-> "Number", value |-> value, plus |-> 0, mul |-> Q]

Number_oscillator(oscillator) ==
    [kind |-> "Oscillator", oscillator |-> oscillator, plus |-> 0, mul |-> Q]

Number_plus_f32(self, rhs) == [self EXCEPT !.plus = @ + rhs]

\* a variant that scales the offset as well
Number_mul_f32_ScalesOffset(self, rhs) ==
    [self EXCEPT !.mul = FMul(@, rhs), !.plus = FMul(@, rhs)]

Number_mul_f32(self, rhs) == [self EXCEPT !.mul = FMul(@, rhs)]

LFOBuilder_build(wave_function, phase) ==
    [wave_function |-> wave_function, phase |-> phase]

Number_sine_around(middle, plus_or_minus, frequency) ==
    Number_plus_f32(
        Number_oscillator(
            LFOBuilder_build([kind      |-> "Sine",
                              frequency |-> Number_number(frequency),
                              amplitude |-> Number_number(plus_or_minus),
                              phase     |-> Number_number(0)], 0)),
        middle)

\* f32::sin of an angle in radians
Sin(x) == SinTurns(FDiv(x, TwoPi))

\* *accumulated_phase += 2.0 * PI * freq * dt;
\* *accumulated_phase = *accumulated_phase % (2.0 * PI);
AdvancePhase(accumulated_phase, freq, dt) ==
    FRem(accumulated_phase + FMul(FMul(TwoPi, freq), dt), TwoPi)

\* (accumulated_phase + phase_offset) / (2.0 * PI), less its floor
NormalizedPhase(angle) == FDiv(angle, TwoPi) % Q

poly_blep(phase, phase_increment) ==
    IF phase < phase_increment
    THEN LET t == FDiv(phase, phase_increment)
         IN  (-FMul(t, t)) + 2 * t - Q
    ELSE IF phase > Q - phase_increment
    THEN LET t == FDiv(phase - Q, phase_increment)
         IN  FMul(t, t) + 2 * t + Q
    ELSE 0

RECURSIVE Number_next_value(_, _)
RECURSIVE WaveFunction_next_value(_, _, _, _)

LFO_next_value(self, rnd) ==
    With(WaveFunction_next_value(self.wave_function, self.phase, Dt, rnd),
         LAMBDA r : [self  |-> [wave_function |-> r.self, phase |-> r.phase],
                     value |-> r.value])

Number_next_value(self, rnd) ==
    IF self.kind = "Number"
    THEN [self |-> self, value |-> FMul(self.mul, self.value) + self.plus]
    ELSE With(LFO_next_value(self.oscillator, rnd),
              LAMBDA r : [self  |-> [self EXCEPT !.oscillator = r.self],
                          value |-> FMul(self.mul, r.value) + self.plus])

\* the sample of a pitched waveform of the given kind, from the frequency,
\* the phase offset and the accumulated phase of the call
WaveShape(kind, freq, phase_offset, acc) ==
    LET normalized_phase == NormalizedPhase(acc + phase_offset)
        phase_increment  == TruncDiv(freq, SAMPLE_RATE)
    IN  CASE kind = "Sine" -> Sin(acc + phase_offset)
          [] kind = "Square" ->
                (IF 2 * normalized_phase < Q THEN Q ELSE -Q)
                + poly_blep(normalized_phase, phase_increment)
                - poly_blep(FRem(normalized_phase + Frac(1, 2), Q),
                            phase_increment)
          [] kind = "Triangle" ->
                IF 2 * normalized_phase < Q
                THEN 4 * normalized_phase - Q
                ELSE 3 * Q - 4 * normalized_phase
          [] kind = "Sawtooth" ->
                2 * normalized_phase - Q
                - poly_blep(normalized_phase, phase_increment)

\* returns the waveform and the accumulated phase as the call leaves them,
\* and the sample
WaveFunction_next_value(self, accumulated_phase, dt, rnd) ==
    IF self.kind = "WhiteNoise"
    THEN With(Number_next_value(self.amplitude, rnd),
              LAMBDA a : [self  |-> [self EXCEPT !.amplitude = a.self],
                          phase |-> accumulated_phase,
                          value |-> FMul(a.value, rnd)])
    ELSE With(<<Number_next_value(self.frequency, rnd),
                Number_next_value(self.amplitude, rnd),
                Number_next_value(self.phase, rnd)>>,
              LAMBDA n :
                 With(AdvancePhase(accumulated_phase, n[1].value, dt),
                      LAMBDA acc :
                         [self  |-> [self EXCEPT !.frequency = n[1].self,
                                                 !.amplitude = n[2].self,
                                                 !.phase = n[3].self],
                          phase |-> acc,
                          value |-> FMul(n[2].value,
                                         WaveShape(self.kind, n[1].value,
                                                   n[3].value, acc))]))

(***************************************************************************)
(* effects.rs: Volume and Filter.  An effect's apply returns the effect as *)
(* the call leaves it, the grain, the oscillator changes it asks for, and  *)
(* whether an assert! failed on the way.                                   *)
(***************************************************************************)
Volume(number) == [kind |-> "Volume", number |-> number]

RECURSIVE Volume_apply_from(_, _, _, _)
Volume_apply_from(self, grain, i, rnd) ==
    IF i > Len(grain) THEN [self |-> self, grain |-> grain]
    ELSE With(Number_next_value(self.number, rnd[i]),
              LAMBDA v :
                 With(<<[self EXCEPT !.number = v.self],
                        [grain EXCEPT ![i] = FMul(grain[i], v.value)]>>,
                      LAMBDA n : Volume_apply_from(n[1], n[2], i + 1, rnd)))

Volume_apply(self, input, rnd) ==
    With(Volume_apply_from(self, input.grain, 1, rnd),
         LAMBDA r : [self |-> r.self, grain |-> r.grain,
                     oscillator_changes |-> <<>>, panic |-> FALSE])

OnePoleFilter_new == [previous_output |-> 0]

\* a one-pole stage without its tanh: it returns the output it stores
OnePoleFilter_process_sample_Linear(self, sample_in, cutoff) ==
    LET output == FMul(cutoff, sample_in) + FMul(Q - cutoff, self.previous_output)
    IN  [self |-> [previous_output |-> output], value |-> output]

OnePoleFilter_process_sample(self, sample_in, cutoff) ==
    LET output == FMul(cutoff, sample_in) + FMul(Q - cutoff, self.previous_output)
    IN  [self  |-> [previous_output |-> output],
         value |-> FMul(Tanh(FMul(output, Frac(7, 10))), Frac(14, 10))]

Filter_new(mode, cutoff_frequency, resonance, num_poles) ==
    [kind |-> "Filter", mode |-> mode, cutoff_frequency |-> cutoff_frequency,
     resonance |-> resonance, poles |-> Repeat(OnePoleFilter_new, num_poles),
     stage_outputs |-> Repeat(0, num_poles + 1)]

\* the loop over the poles, from pole i on: each pole filters what the pole
\* before it returned; stage_outputs[i+1] in the source is entry i + 1 here
\* (entry 1 is the source's stage_outputs[0])
RECURSIVE Filter_poles_from(_, _, _, _)
Filter_poles_from(self, sample_in, cutoff, i) ==
    IF i > Len(self.poles) THEN self
    ELSE With(OnePoleFilter_process_sample(self.poles[i], sample_in, cutoff),
              LAMBDA r :
                 With([self EXCEPT !.poles[i] = r.self,
                                   !.stage_outputs[i + 1] = r.value],
                      LAMBDA s : Filter_poles_from(s, r.value, cutoff, i + 1)))

\* let mut hp = stage_outputs[0];
\* for i in 0..n { hp += sign * stage_outputs[i+1] }, the sign -1.0 for an
\* even i and 1.0 for an odd one
RECURSIVE Filter_high_pass(_, _)
Filter_high_pass(stage_outputs, n) ==
    IF n = 0 THEN stage_outputs[1]
    ELSE Filter_high_pass(stage_outputs, n - 1)
         + (IF (n - 1) % 2 = 0 THEN -1 ELSE 1) * stage_outputs[n + 1]

\* `match self.mode`, on the stage outputs of the sample
Filter_output(mode, so, n) ==
    CASE mode = "LowPass"  -> so[n + 1]
      [] mode = "HighPass" -> Filter_high_pass(so, n)
      [] mode = "BandPass" ->
            IF n >= 2 THEN so[(n \div 2) + 1] - so[n + 1] ELSE so[1] - so[n + 1]
      [] mode = "Notch"    -> TruncDiv(so[n + 1] + (so[1] - so[n + 1]), 2)

Filter_process_sample(self, sample_in, rnd) ==
    LET n == Len(self.poles)
    IN  With(<<IF n = 4 THEN Number_next_value(self.resonance, rnd)
               ELSE [self |-> self.resonance, value |-> 0],
               Number_next_value(self.cutoff_frequency, rnd)>>,
             LAMBDA p :
        LET resonance == p[1].value
            cutoff_frequency == p[2].value
            feedback == FMul(FMul(Frac(55, 10), resonance),
                             self.poles[n].previous_output)
            cutoff == Q - ExpNeg(TruncDiv(FMul(TwoPi, cutoff_frequency),
                                          SAMPLE_RATE))
        IN  IF n = 4 /\ ~(resonance >= 0 /\ resonance <= Q)
            THEN [self |-> self, value |-> 0, panic |-> TRUE]
            ELSE With(Filter_poles_from(
                          [self EXCEPT !.resonance = p[1].self,
                                       !.cutoff_frequency = p[2].self,
                                       !.stage_outputs[1] = sample_in],
                          IF n = 4 THEN sample_in - feedback ELSE sample_in,
                          cutoff, 1),
                      LAMBDA s :
                         [self  |-> s,
                          value |-> Filter_output(s.mode, s.stage_outputs, n),
                          panic |-> FALSE]))

RECURSIVE Filter_apply_from(_, _, _, _)
Filter_apply_from(self, grain, i, rnd) ==
    IF i > Len(grain) THEN [self |-> self, grain |-> grain, panic |-> FALSE]
    ELSE With(Filter_process_sample(self, grain[i], rnd[i]),
              LAMBDA r :
                 IF r.panic
                 THEN [self |-> self, grain |-> grain, panic |-> TRUE]
                 ELSE With([grain EXCEPT ![i] = r.value],
                           LAMBDA g : Filter_apply_from(r.self, g, i + 1, rnd)))

Filter_apply(self, input, rnd) ==
    With(Filter_apply_from(self, input.grain, 1, rnd),
         LAMBDA r : [self |-> r.self, grain |-> r.grain,
                     oscillator_changes |-> <<>>, panic |-> r.panic])

(***************************************************************************)
(* effects.rs: Saturation and TapeDelay.                                   *)
(***************************************************************************)
\* the integer square root
ISqrt(n) == CHOOSE r \in 0..n : r * r <= n /\ (r + 1) * (r + 1) > n

\* f32::sqrt of a fixed-point value x >= 0
FSqrt(x) == ISqrt(x * Q)

\* `x as usize` of a float: toward zero, and 0 below zero
AsUsize(x) == IF x < 0 THEN 0 ELSE x \div Q

\* the stored target is the drive as given; the first value of a clone of it
\* is the drive the saturation starts from
Saturation_new(drive, mix, slew_rate, rnd) ==
    [kind |-> "Saturation", target_drive |-> drive,
     actual_drive |-> TruncDiv(Number_next_value(drive, rnd).value, 3),
     mix |-> mix, slew_rate |-> slew_rate]

\* a variant that sets the drive to its target at once
Saturation_update_actual_drive_Jump(self, rnd) ==
    With(Number_next_value(self.target_drive, rnd), LAMBDA t :
    With(TruncDiv(self.slew_rate, SAMPLE_RATE), LAMBDA max_change :
    IF max_change < 0 THEN [self |-> self, panic |-> TRUE]
    ELSE [self  |-> [self EXCEPT !.target_drive = t.self,
                                 !.actual_drive = t.value],
          panic |-> FALSE]))

\* f32::clamp panics when min > max
Saturation_update_actual_drive(self, rnd) ==
    With(Number_next_value(self.target_drive, rnd), LAMBDA t :
    With(TruncDiv(self.slew_rate, SAMPLE_RATE), LAMBDA max_change :
    IF max_change < 0 THEN [self |-> self, panic |-> TRUE]
    ELSE [self  |-> [self EXCEPT
                        !.target_drive = t.self,
                        !.actual_drive =
                            @ + Clamp(t.value - @, -max_change, max_change)],
          panic |-> FALSE]))

Saturation_process_sample(self, sample_in, rnd) ==
    With(Saturation_update_actual_drive(self, rnd), LAMBDA u :
    IF u.panic THEN [self |-> self, value |-> 0, panic |-> TRUE]
    ELSE
    With(IF sample_in >= 0 THEN u.self.actual_drive
         ELSE FMul(u.self.actual_drive, Frac(9, 10)), LAMBDA drive :
    With(FMul(Tanh(FMul(sample_in, drive)), FDiv(2 * Q, FSqrt(Q + drive))),
         LAMBDA wet :
    With(Number_next_value(u.self.mix, rnd), LAMBDA m :
         [self  |-> [u.self EXCEPT !.mix = m.self],
          value |-> FMul(m.value, wet) + FMul(Q - m.value, sample_in),
          panic |-> FALSE]))))

RECURSIVE Saturation_apply_from(_, _, _, _)
Saturation_apply_from(self, grain, i, rnd) ==
    IF i > Len(grain) THEN [self |-> self, grain |-> grain, panic |-> FALSE]
    ELSE With(Saturation_process_sample(self, grain[i], rnd[i]),
              LAMBDA r :
                 IF r.panic
                 THEN [self |-> self, grain |-> grain, panic |-> TRUE]
                 ELSE With([grain EXCEPT ![i] = r.value],
                           LAMBDA g :
                              Saturation_apply_from(r.self, g, i + 1, rnd)))

Saturation_apply(self, input, rnd) ==
    With(Saturation_apply_from(self, input.grain, 1, rnd),
         LAMBDA r : [self |-> r.self, grain |-> r.grain,
                     oscillator_changes |-> <<>>, panic |-> r.panic])

\* the buffer is a Vec with the capacity it was made with
TapeDelay_new(read_delay, mix, feedback, wow_range_pct, wow_speed, flutter_range_pct, flutter_speed) ==
    With(<<FMul(wow_range_pct, read_delay),
           FMul(flutter_range_pct, read_delay)>>, LAMBDA range :
    With(AsUsize((range[1] + range[2]) * SAMPLE_RATE), LAMBDA extra_space :
         [kind |-> "TapeDelay",
          buffer |-> <<>>,
          capacity |-> AsUsize(read_delay * SAMPLE_RATE) + extra_space,
          read_delay |-> read_delay,
          extra_space |-> extra_space,
          mix |-> mix,
          feedback |-> feedback,
          wow_oscillator |-> Number_sine_around(0, range[1], wow_speed),
          flutter_oscillator |->
              Number_sine_around(0, range[2], flutter_speed),
          low_pass_filter |->
              Filter_new("LowPass", Number_number(6000 * Q),
                         Number_number(Frac(3, 10)), 1),
          saturation |->
              Saturation_new(Number_number(2 * Q), Number_number(Frac(7, 10)),
                             Frac(1, 2), 0)]))

TapeDelay_light(delay) ==
    TapeDelay_new(delay, Number_number(Frac(1, 10)), Number_number(Frac(1, 10)),
                  Frac(1, 1000), Frac(1, 10), Frac(5, 1000), Q)

\* Vec::remove(0) panics on an empty buffer
TapeDelay_push_sample_to_buffer(self, sample_in) ==
    IF Len(self.buffer) >= self.capacity - self.extra_space
    THEN IF self.buffer = <<>> THEN [self |-> self, panic |-> TRUE]
         ELSE [self  |-> [self EXCEPT !.buffer = Append(Tail(@), sample_in)],
               panic |-> FALSE]
    ELSE [self |-> [self EXCEPT !.buffer = Append(@, sample_in)],
          panic |-> FALSE]

\* self.buffer[read_index] panics out of bounds; index i of the source is
\* element i + 1 here
TapeDelay_read_sample_from_buffer(self, rnd) ==
    With(<<Number_next_value(self.wow_oscillator, rnd),
           Number_next_value(self.flutter_oscillator, rnd)>>, LAMBDA w :
    With(AsUsize(self.extra_space * Q + w[1].value * SAMPLE_RATE
                   + w[2].value * SAMPLE_RATE), LAMBDA read_index :
         [self  |-> [self EXCEPT !.wow_oscillator = w[1].self,
                                 !.flutter_oscillator = w[2].self],
          value |-> IF read_index < Len(self.buffer)
                    THEN self.buffer[read_index + 1] ELSE 0,
          panic |-> ~(read_index < Len(self.buffer))]))

\* a variant that reads the buffer whatever its length
TapeDelay_delay_sample_AlwaysRead(self, rnd) ==
    With(TapeDelay_read_sample_from_buffer(self, rnd),
         LAMBDA r : [self |-> r.self, value |-> r.value,
                     panic |-> r.panic, indexed |-> TRUE])

\* the delayed sample: 0.0 while the buffer is shorter than the delay, the
\* sample read from the buffer after
TapeDelay_delay_sample(self, rnd) ==
    IF Frac(Len(self.buffer), SAMPLE_RATE) < self.read_delay
    THEN [self |-> self, value |-> 0, panic |-> FALSE, indexed |-> FALSE]
    ELSE With(TapeDelay_read_sample_from_buffer(self, rnd),
              LAMBDA r : [self |-> r.self, value |-> r.value,
                          panic |-> r.panic, indexed |-> TRUE])

\* what a call that panics returns
TapeDelay_panic(self, d, feedback, mix) ==
    [self |-> self, value |-> 0, panic |-> TRUE, delay_sample |-> d.value,
     indexed |-> d.indexed, feedback |-> feedback, mix |-> mix]

\* a variant without the two assertions
TapeDelay_process_sample_NoAssert(self, sample_in, rnd) ==
    With(TapeDelay_delay_sample(self, rnd), LAMBDA d :
    IF d.panic THEN TapeDelay_panic(self, d, None, None)
    ELSE
    With(Saturation_process_sample(d.self.saturation, d.value, rnd),
         LAMBDA s :
    IF s.panic THEN TapeDelay_panic(self, d, None, None)
    ELSE
    With(Filter_process_sample(d.self.low_pass_filter, s.value, rnd),
         LAMBDA f :
    IF f.panic THEN TapeDelay_panic(self, d, None, None)
    ELSE
    With(Number_next_value(d.self.feedback, rnd), LAMBDA fb :
    With(TapeDelay_push_sample_to_buffer(
             [d.self EXCEPT !.saturation = s.self,
                            !.low_pass_filter = f.self,
                            !.feedback = fb.self],
             sample_in + FMul(fb.value, f.value)), LAMBDA p :
    IF p.panic THEN TapeDelay_panic(self, d, Some(fb.value), None)
    ELSE
    With(Number_next_value(p.self.mix, rnd), LAMBDA m :
         [self  |-> [p.self EXCEPT !.mix = m.self],
          value |-> FMul(m.value, f.value) + FMul(Q - m.value, sample_in),
          panic |-> FALSE, delay_sample |-> d.value, indexed |-> d.indexed,
          feedback |-> Some(fb.value), mix |-> Some(m.value)]))))))

\* returns the delay and the sample, and beside them the delayed sample the
\* call used, whether it indexed the buffer, and the feedback and the mix it
\* evaluated (None when it did not get there)
TapeDelay_process_sample(self, sample_in, rnd) ==
    With(TapeDelay_delay_sample(self, rnd), LAMBDA d :
    IF d.panic THEN TapeDelay_panic(self, d, None, None)
    ELSE
    With(Saturation_process_sample(d.self.saturation, d.value, rnd),
         LAMBDA s :
    IF s.panic THEN TapeDelay_panic(self, d, None, None)
    ELSE
    With(Filter_process_sample(d.self.low_pass_filter, s.value, rnd),
         LAMBDA f :
    IF f.panic THEN TapeDelay_panic(self, d, None, None)
    ELSE
    With(Number_next_value(d.self.feedback, rnd), LAMBDA fb :
    IF ~(fb.value >= 0 /\ fb.value <= Q)
    THEN TapeDelay_panic(self, d, Some(fb.value), None)
    ELSE
    With(TapeDelay_push_sample_to_buffer(
             [d.self EXCEPT !.saturation = s.self,
                            !.low_pass_filter = f.self,
                            !.feedback = fb.self],
             sample_in + FMul(fb.value, f.value)), LAMBDA p :
    IF p.panic THEN TapeDelay_panic(self, d, Some(fb.value), None)
    ELSE
    With(Number_next_value(p.self.mix, rnd), LAMBDA m :
    IF ~(m.value >= 0 /\ m.value <= Q)
    THEN TapeDelay_panic(self, d, Some(fb.value), Some(m.value))
    ELSE [self  |-> [p.self EXCEPT !.mix = m.self],
          value |-> FMul(m.value, f.value) + FMul(Q - m.value, sample_in),
          panic |-> FALSE, delay_sample |-> d.value, indexed |-> d.indexed,
          feedback |-> Some(fb.value), mix |-> Some(m.value)]))))))

RECURSIVE TapeDelay_apply_from(_, _, _, _)
TapeDelay_apply_from(self, grain, i, rnd) ==
    IF i > Len(grain) THEN [self |-> self, grain |-> grain, panic |-> FALSE]
    ELSE With(TapeDelay_process_sample(self, grain[i], rnd[i]),
              LAMBDA r :
                 IF r.panic
                 THEN [self |-> self, grain |-> grain, panic |-> TRUE]
                 ELSE With([grain EXCEPT ![i] = r.value],
                           LAMBDA g :
                              TapeDelay_apply_from(r.self, g, i + 1, rnd)))

TapeDelay_apply(self, input, rnd) ==
    With(TapeDelay_apply_from(self, input.grain, 1, rnd),
         LAMBDA r : [self |-> r.self, grain |-> r.grain,
                     oscillator_changes |-> <<>>, panic |-> r.panic])

\* effect.apply(input) on whatever effect it is
Effect_apply(self, input, rnd) ==
    CASE self.kind = "Volume" -> Volume_apply(self, input, rnd)
      [] self.kind = "Filter" -> Filter_apply(self, input, rnd)
      [] self.kind = "Saturation" -> Saturation_apply(self, input, rnd)
      [] self.kind = "TapeDelay" -> TapeDelay_apply(self, input, rnd)

(***************************************************************************)
(* oscillator/input.rs: OscillatorInputIterator.  index counts from 0 as   *)
(* in the source; inputs[index] there is inputs[index + 1] here.           *)
(***************************************************************************)
Press(freq) == [kind |-> "Press", freq |-> freq]

PressSame == [kind |-> "PressSame"]

Release == [kind |-> "Release"]

OscillatorInputAtTime(input, time) == [input |-> input, time |-> time]

\* inputs.last().unwrap() panics on an empty list: inputs is not empty here
OscillatorInputIterator_new(inputs, repeat_delay) ==
    [inputs |-> inputs, index |-> 0,
     total_duration |-> inputs[Len(inputs)].time,
     repeat_delay |-> repeat_delay]

\* a variant that repeats without the delay
OscillatorInputIterator_repeat_inputs_NoDelay(self) ==
    IF self.repeat_delay # None
    THEN [self EXCEPT
            !.inputs = [i \in DOMAIN self.inputs |->
                          [self.inputs[i] EXCEPT
                             !.time = @ + self.total_duration]],
            !.index = 0]
    ELSE self

OscillatorInputIterator_repeat_inputs(self) ==
    IF self.repeat_delay # None
    THEN [self EXCEPT
            !.inputs = [i \in DOMAIN self.inputs |->
                          [self.inputs[i] EXCEPT
                             !.time = @ + self.total_duration
                                        + self.repeat_delay[1]]],
            !.index = 0]
    ELSE self

\* a variant that starts the list again when it is exhausted, whatever the
\* repeat delay
OscillatorInputIterator_next_Wraps(self, secs_since_start) ==
    LET index_input == self.inputs[(self.index % Len(self.inputs)) + 1]
    IN  IF secs_since_start >= index_input.time
        THEN [self  |-> [self EXCEPT !.index = (@ % Len(self.inputs)) + 1],
              value |-> Some(index_input)]
        ELSE [self |-> self, value |-> None]

OscillatorInputIterator_next(self, secs_since_start) ==
    IF self.index >= Len(self.inputs) THEN [self |-> self, value |-> None]
    ELSE LET index_input == self.inputs[self.index + 1]
             stepped     == [self EXCEPT !.index = @ + 1]
         IN  IF secs_since_start >= index_input.time
             THEN [self  |-> IF stepped.index >= Len(stepped.inputs)
                             THEN OscillatorInputIterator_repeat_inputs(stepped)
                             ELSE stepped,
                   value |-> Some(index_input)]
             ELSE [self |-> self, value |-> None]

(***************************************************************************)
(* oscillator.rs: Oscillator.                                              *)
(***************************************************************************)
ADSR_new(attack_duration, decay_duration, sustain_amplitude_multiplier, release_duration) ==
    [attack_duration |-> attack_duration, decay_duration |-> decay_duration,
     sustain_amplitude_multiplier |-> sustain_amplitude_multiplier,
     release_duration |-> release_duration]

Idle == [kind |-> "Idle"]

Play(started_at) == [kind |-> "Play", started_at |-> started_at]

Releasing(started_at) == [kind |-> "Release", started_at |-> started_at]

Frequency(freq) == [kind |-> "Frequency", freq |-> freq]

\* OscillatorBuilder::build, the ADSR defaulting to ADSR::new(0.1, 0.1, 1.0, 0.1)
OscillatorBuilder_build(wave_function, effects, inputs, adsr) ==
    [wave_function |-> wave_function, index |-> 0, effects |-> effects,
     phase |-> 0, inputs |-> inputs, state |-> Idle, secs_since_start |-> 0,
     adsr |-> IF adsr = None
              THEN ADSR_new(Frac(1, 10), Frac(1, 10), Q, Frac(1, 10))
              ELSE adsr[1]]

\* a variant that retunes a Sine only
Oscillator_apply_change_OnlySine(self, change) ==
    IF self.wave_function.kind = "Sine"
    THEN [self EXCEPT !.wave_function.frequency = Number_number(change.freq)]
    ELSE self

Oscillator_apply_change(self, change) ==
    IF self.wave_function.kind \in {"Sine", "Square", "Triangle", "Sawtooth"}
    THEN [self EXCEPT !.wave_function.frequency = Number_number(change.freq)]
    ELSE self

Oscillator_handle_input(self, input) ==
    CASE input.kind = "Press" ->
            [Oscillator_apply_change(self, Frequency(input.freq)) EXCEPT
                !.state = Play(self.secs_since_start)]
      [] input.kind = "Release" ->
            [self EXCEPT !.index = 0,
                         !.state = Releasing(self.secs_since_start)]
      [] input.kind = "PressSame" ->
            [self EXCEPT !.state = Play(self.secs_since_start)]

\* a variant that asks for the inputs due by the end of the grain
Oscillator_update_inputs_Early(self) ==
    With(OscillatorInputIterator_next(
             self.inputs, self.secs_since_start + Ticks(SAMPLES_PER_GRAIN)),
         LAMBDA r :
            [self  |-> IF r.value # None
                       THEN Oscillator_handle_input(
                                [self EXCEPT !.inputs = r.self],
                                r.value[1].input)
                       ELSE [self EXCEPT !.inputs = r.self],
             input |-> r.value])

\* returns the oscillator and what inputs.next returned
Oscillator_update_inputs(self) ==
    With(OscillatorInputIterator_next(self.inputs, self.secs_since_start),
         LAMBDA r :
            [self  |-> IF r.value # None
                       THEN Oscillator_handle_input(
                                [self EXCEPT !.inputs = r.self],
                                r.value[1].input)
                       ELSE [self EXCEPT !.inputs = r.self],
             input |-> r.value])

\* a variant that counts the samples of an idle oscillator too
Oscillator_next_sample_CountsIdle(self, rnd) ==
    IF self.state.kind = "Idle"
    THEN [self |-> [self EXCEPT !.secs_since_start = @ + Dt,
                                !.index = @ + 1],
          value |-> 0]
    ELSE With(WaveFunction_next_value(self.wave_function, self.phase, Dt, rnd),
              LAMBDA r :
                 [self  |-> [self EXCEPT !.secs_since_start = @ + Dt,
                                         !.index = @ + 1,
                                         !.wave_function = r.self,
                                         !.phase = r.phase],
                  value |-> r.value])

Oscillator_next_sample(self, rnd) ==
    IF self.state.kind = "Idle"
    THEN [self |-> [self EXCEPT !.secs_since_start = @ + Dt], value |-> 0]
    ELSE With(WaveFunction_next_value(self.wave_function, self.phase, Dt, rnd),
              LAMBDA r :
                 [self  |-> [self EXCEPT !.secs_since_start = @ + Dt,
                                         !.index = @ + 1,
                                         !.wave_function = r.self,
                                         !.phase = r.phase],
                  value |-> r.value])

\* for sample in &mut grain { *sample = self.next_sample(); }, from sample i
RECURSIVE Oscillator_fill_from(_, _, _, _)
Oscillator_fill_from(self, grain, i, rnd) ==
    IF i > SAMPLES_PER_GRAIN THEN [self |-> self, grain |-> grain]
    ELSE With(Oscillator_next_sample(self, rnd[i]),
              LAMBDA r :
                 With([grain EXCEPT ![i] = r.value],
                      LAMBDA g : Oscillator_fill_from(r.self, g, i + 1, rnd)))

\* for effect in &mut self.effects { ... }, from effect i
RECURSIVE Oscillator_effects_from(_, _, _, _, _)
Oscillator_effects_from(self, grain, changes, i, rnd) ==
    IF i > Len(self.effects)
    THEN [self |-> self, grain |-> grain, changes |-> changes, panic |-> FALSE]
    ELSE With(Effect_apply(self.effects[i],
                           [grain |-> grain,
                            time_since_start_of_beat |-> self.secs_since_start],
                           rnd),
              LAMBDA r :
                 IF r.panic
                 THEN [self |-> self, grain |-> grain, changes |-> changes,
                       panic |-> TRUE]
                 ELSE With([self EXCEPT !.effects[i] = r.self],
                           LAMBDA s :
                              Oscillator_effects_from(
                                  s, r.grain, changes \o r.oscillator_changes,
                                  i + 1, rnd)))

RECURSIVE Oscillator_apply_changes(_, _)
Oscillator_apply_changes(self, changes) ==
    IF changes = <<>> THEN self
    ELSE Oscillator_apply_changes(Oscillator_apply_change(self, Head(changes)),
                                  Tail(changes))

Scale(grain, factor) == [i \in DOMAIN grain |-> FMul(grain[i], factor)]

\* a variant whose decay is measured from the press, not from the end of
\* the attack
Oscillator_apply_adsr_DecayFromPress(self, grain) ==
    CASE self.state.kind = "Idle" -> [self |-> self, grain |-> grain]
      [] self.state.kind = "Play" ->
            LET secs_since_start_of_play ==
                    self.secs_since_start - self.state.started_at
                decay_start   == self.adsr.attack_duration
                sustain_start == decay_start + self.adsr.decay_duration
                amplitude ==
                    IF secs_since_start_of_play < decay_start
                    THEN FDiv(secs_since_start_of_play,
                              self.adsr.attack_duration)
                    ELSE IF secs_since_start_of_play < sustain_start
                    THEN Q - FMul(Q - self.adsr.sustain_amplitude_multiplier,
                                  FDiv(secs_since_start_of_play,
                                       self.adsr.decay_duration))
                    ELSE self.adsr.sustain_amplitude_multiplier
            IN  [self |-> self, grain |-> Scale(grain, amplitude)]
      [] self.state.kind = "Release" ->
            LET secs_since_start_of_release ==
                    self.secs_since_start - self.state.started_at
            IN  IF secs_since_start_of_release > self.adsr.release_duration
                THEN [self  |-> [self EXCEPT !.state = Idle],
                      grain |-> Repeat(0, SAMPLES_PER_GRAIN)]
                ELSE [self  |-> self,
                      grain |-> Scale(grain,
                          FMul(self.adsr.sustain_amplitude_multiplier,
                               Q - FDiv(secs_since_start_of_release,
                                        self.adsr.release_duration)))]

\* the `match &self.state` that ends next_grain
Oscillator_apply_adsr(self, grain) ==
    CASE self.state.kind = "Idle" -> [self |-> self, grain |-> grain]
      [] self.state.kind = "Play" ->
            LET secs_since_start_of_play ==
                    self.secs_since_start - self.state.started_at
                decay_start   == self.adsr.attack_duration
                sustain_start == decay_start + self.adsr.decay_duration
                amplitude ==
                    IF secs_since_start_of_play < decay_start
                    THEN FDiv(secs_since_start_of_play,
                              self.adsr.attack_duration)
                    ELSE IF secs_since_start_of_play < sustain_start
                    THEN Q - FMul(Q - self.adsr.sustain_amplitude_multiplier,
                                  FDiv(secs_since_start_of_play - decay_start,
                                       self.adsr.decay_duration))
                    ELSE self.adsr.sustain_amplitude_multiplier
            IN  [self |-> self, grain |-> Scale(grain, amplitude)]
      [] self.state.kind = "Release" ->
            LET secs_since_start_of_release ==
                    self.secs_since_start - self.state.started_at
            IN  IF secs_since_start_of_release > self.adsr.release_duration
                THEN [self  |-> [self EXCEPT !.state = Idle],
                      grain |-> Repeat(0, SAMPLES_PER_GRAIN)]
                ELSE [self  |-> self,
                      grain |-> Scale(grain,
                          FMul(self.adsr.sustain_amplitude_multiplier,
                               Q - FDiv(secs_since_start_of_release,
                                        self.adsr.release_duration)))]

\* returns the oscillator and the grain, and beside them the oscillator as
\* update_inputs left it, the input it handled, and whether an effect
\* panicked
Oscillator_next_grain(self, rnd) ==
    With(Oscillator_update_inputs(self), LAMBDA u :
    With(Oscillator_fill_from(u.self, Repeat(0, SAMPLES_PER_GRAIN), 1, rnd),
         LAMBDA g :
    With(Oscillator_effects_from(g.self, g.grain, <<>>, 1, rnd), LAMBDA e :
    With(Oscillator_apply_changes(e.self, e.changes), LAMBDA c :
    With(Oscillator_apply_adsr(c, e.grain), LAMBDA a :
         [self |-> a.self, grain |-> a.grain, after_inputs |-> u.self,
          input |-> u.input, panic |-> e.panic])))))

(***************************************************************************)
(* The Oscillator asked for one grain after another.                       *)
(***************************************************************************)
Wave(kind, frequency) ==
    [kind |-> kind, frequency |-> frequency, amplitude |-> Number_number(Q),
     phase |-> Number_number(0)]

\* the waveforms an oscillator is built with: the four pitched ones at a
\* constant 0.5 Hz, a sine whose frequency is an LFO, and white noise
WaveFunctions ==
    { Wave(k, Number_number(Frac(1, 2))) :
          k \in {"Sine", "Square", "Triangle", "Sawtooth"} }
    \cup { Wave("Sine", Number_sine_around(Frac(1, 2), Frac(1, 4), Frac(3, 10))),
           [kind |-> "WhiteNoise", amplitude |-> Number_number(Q)] }

\* the input lists: a note pressed and released; a Release before any
\* press; a Press due in the middle of a grain and a repeated press; three
\* events due at once; a Release while releasing; a PressSame first
InputLists ==
    { << OscillatorInputAtTime(Press(Frac(3, 10)), 0),
         OscillatorInputAtTime(Release, Ticks(2 * SAMPLES_PER_GRAIN)) >>,
      << OscillatorInputAtTime(Release, 0) >>,
      << OscillatorInputAtTime(Press(Frac(7, 10)), Ticks(1)),
         OscillatorInputAtTime(PressSame, Ticks(SAMPLES_PER_GRAIN + 1)) >>,
      << OscillatorInputAtTime(Press(Frac(3, 10)), 0),
         OscillatorInputAtTime(Release, 0),
         OscillatorInputAtTime(Press(Frac(7, 10)), 0) >>,
      << OscillatorInputAtTime(Press(Frac(9, 10)), 0),
         OscillatorInputAtTime(Release, Ticks(1)),
         OscillatorInputAtTime(Release, Ticks(2)) >>,
      << OscillatorInputAtTime(PressSame, 0),
         OscillatorInputAtTime(Release, Ticks(SAMPLES_PER_GRAIN)) >> }

RepeatDelays == {None, Some(0), Some(Ticks(SAMPLES_PER_GRAIN))}

\* the effect chains: none, a Volume, a one-pole low-pass Filter, and a
\* Volume before a four-pole high-pass Filter with resonance
EffectChains ==
    { <<>>,
      << Volume(Number_number(Frac(1, 2))) >>,
      << Filter_new("LowPass", Number_number(Q), Number_number(0), 1) >>,
      << Volume(Number_number(2 * Q)),
         Filter_new("HighPass", Number_number(Q),
                    Number_number(Frac(1, 2)), 4) >> }

Stateless(effects) == \A i \in DOMAIN effects : effects[i].kind = "Volume"

ADSRs == {None, Some(ADSR_new(Ticks(3), Ticks(2), Frac(1, 2), Ticks(3)))}

OscInit ==
    /\ \E w \in WaveFunctions, l \in InputLists, d \in RepeatDelays,
          e \in EffectChains, a \in ADSRs :
          \* noise through a filter makes every run a tree of filter states:
          \* the noise goes through the stateless chains
          /\ w.kind = "WhiteNoise" => Stateless(e)
          /\ osc = OscillatorBuilder_build(
                       w, e, OscillatorInputIterator_new(l, d), a)
    /\ osc_grain = <<>>
    /\ after_inputs = osc
    /\ handled = <<>>
    /\ panicked = FALSE
    /\ PlayerAbsent /\ IterAbsent /\ SmpAbsent /\ AuxAbsent

\* the time an oscillator has reached after n grains
GrainsTime(n) == Ticks(n * SAMPLES_PER_GRAIN)

\* what rand::random_range may draw in the samples of one grain: a draw per
\* sample for a noise, and nothing to draw for the other waveforms
Draws(wave_function) ==
    IF wave_function.kind = "WhiteNoise"
    THEN [1..SAMPLES_PER_GRAIN -> NoiseValues]
    ELSE {[i \in 1..SAMPLES_PER_GRAIN |-> 0]}

\* the owner of the oscillator calls next_grain
OscNextGrain ==
    /\ ~panicked
    /\ osc.secs_since_start < GrainsTime(MaxGrains)
    /\ \E rnd \in Draws(osc.wave_function) :
       \E r \in {Oscillator_next_grain(osc, rnd)} :
          IF r.panic
          THEN /\ panicked' = TRUE
               /\ UNCHANGED <<osc, osc_grain, after_inputs, handled>>
          ELSE /\ osc' = r.self
               /\ osc_grain' = r.grain
               /\ after_inputs' = r.after_inputs
               /\ handled' =
                    IF r.input = None THEN handled
                    ELSE Append(handled,
                                [input |-> r.input[1].input,
                                 time  |-> r.input[1].time,
                                 at    |-> osc.secs_since_start])
               /\ UNCHANGED panicked
    /\ UNCHANGED <<playerVars, iterVars, smpVars, auxVars>>

OscNext == OscNextGrain

SpecOsc == OscInit /\ [][OscNext]_vars

(***************************************************************************)
(* Claims about the Oscillator.                                            *)
(***************************************************************************)
Silent(grain) == \A i \in DOMAIN grain : grain[i] = 0

IsPress(h) == h.input.kind \in {"Press", "PressSame"}

\* the oscillator has taken a step of next_grain that did not panic
Stepped == osc'.secs_since_start # osc.secs_since_start

\* C4: for an Oscillator with any effect chain whose last two inputs handled
\* are a Press and then a Release: once more than release_duration has
\* elapsed since that Release, the state is Idle and the grain next_grain
\* returned is exactly zero.
C4_SilentAfterRelease ==
    LET k == Len(handled)
    IN  ( /\ k > 1
          /\ handled[k - 1].input.kind = "Press"
          /\ handled[k].input.kind = "Release"
          /\ osc.secs_since_start - handled[k].at > osc.adsr.release_duration )
        => (osc.state = Idle /\ Silent(osc_grain))

\* C5: over every next_grain the state moves only along the specified
\* machine: Play is entered only by a Press or PressSame handled in the call;
\* Release is entered only from Play, by a Release handled in the call; Idle
\* is entered only from Release (held before the call or entered in it from
\* Play) once more than the release duration has elapsed; and a Release
\* handled while Idle leaves the oscillator Idle and its grain silent.
C5_Step ==
    Stepped =>
    LET before  == osc.state
        after   == osc'.state
        handles == handled' # handled
        input   == handled'[Len(handled')].input
    IN  /\ (after.kind = "Play" /\ after # before) =>
              handles /\ input.kind \in {"Press", "PressSame"}
        /\ (after.kind = "Release" /\ after # before) =>
              handles /\ input.kind = "Release" /\ before.kind = "Play"
        /\ (after = Idle /\ after # before) =>
              /\ \/ before.kind = "Release" /\ ~handles
                 \/ before.kind = "Play" /\ handles /\ input.kind = "Release"
              /\ osc'.secs_since_start - after_inputs'.state.started_at
                    > osc.adsr.release_duration
        /\ (handles /\ input.kind = "Release" /\ before = Idle) =>
              (after = Idle /\ Silent(osc_grain'))

C5_OnlySpecifiedTransitions == [][C5_Step]_vars

\* C6: handling Press(f) sets the frequency of a Sine, Square, Triangle or
\* Sawtooth to the constant f (a Number of value f, plus 0.0, mul 1.0) and
\* leaves amplitude and phase alone; handling PressSame or Release leaves the
\* whole waveform unchanged; a constant frequency stays as set through the
\* grain.
C6_Step ==
    (Stepped /\ handled' # handled) =>
    LET input  == handled'[Len(handled')].input
        before == osc.wave_function
        after  == after_inputs'.wave_function
    IN  /\ IF input.kind = "Press"
              /\ before.kind \in {"Sine", "Square", "Triangle", "Sawtooth"}
           THEN /\ after.frequency =
                      [kind |-> "Number", value |-> input.freq, plus |-> 0,
                       mul |-> Q]
                /\ Number_next_value(after.frequency, 0).value = input.freq
                /\ after.kind = before.kind
                /\ after.amplitude = before.amplitude
                /\ after.phase = before.phase
                /\ osc'.wave_function.frequency = after.frequency
           ELSE after = before

C6_PressSetsFrequency == [][C6_Step]_vars

\* a Press retuned a Square, and a later PressSame or Release was handled
\* with the waveform still at that frequency
C6_Witness ==
    /\ Len(handled) >= 2
    /\ handled[1].input.kind = "Press"
    /\ handled[Len(handled)].input.kind \in {"PressSame", "Release"}
    /\ osc.wave_function.kind = "Square"
    /\ osc.wave_function.frequency = Number_number(handled[1].input.freq)
    /\ handled[1].input.freq # Frac(1, 2)

\* C7: the queue is checked at every sample: an input is handled at the
\* first sample that is at or after its time and after the sample at which
\* the input before it was handled, so less than one sample period after
\* the later of the two.
C7_CheckedEverySample ==
    \A k \in DOMAIN handled :
        handled[k].at
          - Max(handled[k].time,
                IF k = 1 THEN 0 ELSE handled[k - 1].at + Dt) < Dt

InputsExhausted(o) ==
    o.inputs.index >= Len(o.inputs.inputs) /\ o.inputs.repeat_delay = None

\* the times next may be asked at
Times == 0..GrainsTime(MaxGrains + 1)

C8_NextIsNone ==
    InputsExhausted(osc) =>
        \A t \in Times :
            OscillatorInputIterator_next(osc.inputs, t)
                = [self |-> osc.inputs, value |-> None]

C8_Step ==
    (InputsExhausted(osc) /\ Stepped) =>
        /\ handled' = handled
        /\ osc'.inputs = osc.inputs
        /\ after_inputs'.state = osc.state
        /\ \/ osc'.state = osc.state
           \/ osc.state.kind = "Release" /\ osc'.state = Idle

\* C8: once the inputs are exhausted and there is no repeat delay, next
\* returns None at every time and leaves the iterator as it is, no input is
\* handled any more, and the state stays what it is but for the timed change
\* from Release to Idle.
C8_ExhaustedQueue == [](C8_NextIsNone) /\ [][C8_Step]_vars

\* the inputs ran out two grains ago and the oscillator still plays
C8_Witness ==
    /\ InputsExhausted(osc)
    /\ osc.state.kind = "Play"
    /\ handled # <<>>
    /\ osc.secs_since_start - handled[Len(handled)].at >= GrainsTime(3)

(***************************************************************************)
(* sample/input.rs: SampleInputIterator (index from 0 as in the source).   *)
(***************************************************************************)
Trigger == [kind |-> "Trigger"]

SampleInputAtTime(input, time) == [input |-> input, time |-> time]

\* inputs.last().unwrap() panics on an empty list: inputs is not empty here
SampleInputIterator_new(inputs, repeat_delay) ==
    [inputs |-> inputs, index |-> 0,
     total_duration |-> inputs[Len(inputs)].time,
     repeat_delay |-> repeat_delay]

SampleInputIterator_repeat_inputs(self) ==
    IF self.repeat_delay # None
    THEN [self EXCEPT
            !.inputs = [i \in DOMAIN self.inputs |->
                          [self.inputs[i] EXCEPT
                             !.time = @ + self.total_duration
                                        + self.repeat_delay[1]]],
            !.index = 0]
    ELSE self

SampleInputIterator_next(self, secs_since_start) ==
    IF self.index >= Len(self.inputs) THEN [self |-> self, value |-> None]
    ELSE LET index_input == self.inputs[self.index + 1]
             stepped     == [self EXCEPT !.index = @ + 1]
         IN  IF secs_since_start >= index_input.time
             THEN [self  |-> IF stepped.index >= Len(stepped.inputs)
                             THEN SampleInputIterator_repeat_inputs(stepped)
                             ELSE stepped,
                   value |-> Some(index_input)]
             ELSE [self |-> self, value |-> None]

(***************************************************************************)
(* The two iterators with a repeat delay, asked for their next input by a  *)
(* client whose time advances by sample periods.                           *)
(***************************************************************************)
\* sample periods the client's time runs through
MaxTicks == 9

\* events an iterator is let deliver in a run
MaxDeliveries == 5

\* the times of the inputs of a list, in sample periods: one input; two
\* inputs apart; two inputs due together; three inputs, the first later
\* than the start
TickLists == { <<0>>, <<1, 3>>, <<2, 2>>, <<1, 1, 2>> }

\* the repeat delays, in sample periods
TickDelays == {0, 1}

\* the i-th input of the oscillator's list: the presses differ in
\* frequency, so that their order shows
OscInputOf(i) == Press(Frac(i, 10))

IterInit ==
    /\ \E l \in TickLists, d \in TickDelays :
          /\ given = [times |-> [i \in DOMAIN l |-> Ticks(l[i])],
                      delay |-> Ticks(d)]
          /\ osc_inputs = OscillatorInputIterator_new(
                 [i \in DOMAIN l |->
                     OscillatorInputAtTime(OscInputOf(i), Ticks(l[i]))],
                 Some(Ticks(d)))
          /\ sample_inputs = SampleInputIterator_new(
                 [i \in DOMAIN l |-> SampleInputAtTime(Trigger, Ticks(l[i]))],
                 Some(Ticks(d)))
    /\ now = 0
    /\ delivered = [osc |-> [count |-> 0, last |-> None],
                    smp |-> [count |-> 0, last |-> None]]
    /\ panicked = FALSE
    /\ PlayerAbsent /\ OscAbsent /\ SmpAbsent /\ AuxAbsent

\* the log after next returned value at the time now
Logged(log, value) ==
    IF value = None THEN log
    ELSE [count |-> log.count + 1,
          last  |-> Some([event |-> value[1], at |-> now])]

\* the client calls osc_inputs.next(now)
OscPoll ==
    /\ delivered.osc.count < MaxDeliveries
    /\ \E r \in {OscillatorInputIterator_next(osc_inputs, now)} :
          /\ osc_inputs' = r.self
          /\ delivered' = [delivered EXCEPT !.osc = Logged(@, r.value)]
    /\ UNCHANGED <<sample_inputs, now, given, playerVars, oscVars, smpVars, auxVars>>

\* the client calls sample_inputs.next(now)
SamplePoll ==
    /\ delivered.smp.count < MaxDeliveries
    /\ \E r \in {SampleInputIterator_next(sample_inputs, now)} :
          /\ sample_inputs' = r.self
          /\ delivered' = [delivered EXCEPT !.smp = Logged(@, r.value)]
    /\ UNCHANGED <<osc_inputs, now, given, playerVars, oscVars, smpVars, auxVars>>

\* a sample period passes
Tick ==
    /\ now < Ticks(MaxTicks)
    /\ now' = now + Dt
    /\ UNCHANGED <<osc_inputs, sample_inputs, given, delivered, playerVars,
                   oscVars, smpVars, auxVars>>

IterNext == OscPoll \/ SamplePoll \/ Tick

SpecIter == IterInit /\ [][IterNext]_vars

\* time keeps advancing and the client keeps asking
SpecIterFair ==
    SpecIter /\ WF_vars(Tick) /\ WF_vars(OscPoll) /\ WF_vars(SamplePoll)

(***************************************************************************)
(* Claims about the iterators.                                             *)
(***************************************************************************)
\* the m-th delivery (m = 1, 2, ...) is input InputIndex(m) of pass PassOf(m)
PassOf(m) == (m - 1) \div Len(given.times)

InputIndex(m) == ((m - 1) % Len(given.times)) + 1

\* t_i + k * (t_n + d) for the m-th delivery
DueTime(m) ==
    given.times[InputIndex(m)]
      + PassOf(m) * (given.times[Len(given.times)] + given.delay)

\* the stream never ends: the iterator always has a next input
C9_NeverEnds ==
    /\ osc_inputs.index < Len(osc_inputs.inputs)
    /\ sample_inputs.index < Len(sample_inputs.inputs)

\* a delivery is the next input of the original order, with the time of its
\* pass, and is not made before that time
C9_InOrderNotEarly(log, log2, expected) ==
    log2 # log =>
        /\ log2.count = log.count + 1
        /\ log2.last[1].event.input = expected
        /\ log2.last[1].event.time = DueTime(log2.count)
        /\ log2.last[1].at >= DueTime(log2.count)

C9_Step ==
    /\ C9_InOrderNotEarly(delivered.osc, delivered'.osc,
                          OscInputOf(InputIndex(delivered'.osc.count)))
    /\ C9_InOrderNotEarly(delivered.smp, delivered'.smp, Trigger)

\* every delivery that falls due within the run is made in the end
C9_AllDelivered ==
    \A m \in 1..MaxDeliveries :
        <>(DueTime(m) <= Ticks(MaxTicks)
              => (delivered.osc.count >= m /\ delivered.smp.count >= m))

\* C9: with repeat_after(d) and inputs at times t_1 <= ... <= t_n, both for
\* the OscillatorInputIterator and the SampleInputIterator: the stream never
\* ends; event i of pass k is delivered in the original order, with time
\* t_i + k * (t_n + d) and not before that time; and as time advances and the
\* client keeps asking, every event of every pass is delivered.
C9_RepeatStream == [](C9_NeverEnds) /\ [][C9_Step]_vars /\ C9_AllDelivered

\* both iterators are in their third pass over a list of two inputs or more
\* with a positive delay
C9_Witness ==
    /\ given # Absent
    /\ Len(given.times) >= 2
    /\ given.delay > 0
    /\ delivered.osc.count > 2 * Len(given.times)
    /\ delivered.smp.count > 2 * Len(given.times)
    /\ osc_inputs.inputs[1].time
          = given.times[1] + 2 * (given.times[Len(given.times)] + given.delay)

(***************************************************************************)
(* sample.rs: Sample, the clip played once per Trigger.                    *)
(***************************************************************************)
\* Sample::new for a clip that has the target length already, which
\* normalize_sample_length returns as it is
Sample_new(samples, secs_per_beat, inputs) ==
    [samples |-> samples, secs_per_beat |-> secs_per_beat, index |-> 0,
     effects |-> <<>>, secs_since_start |-> 0, inputs |-> inputs,
     play |-> FALSE]

Sample_add_effect(self, effect) == [self EXCEPT !.effects = Append(@, effect)]

RECURSIVE SampleBuilder_add_effects(_, _)
SampleBuilder_add_effects(self, effects) ==
    IF effects = <<>> THEN self
    ELSE SampleBuilder_add_effects(Sample_add_effect(self, Head(effects)),
                                   Tail(effects))

Sample_handle_input(self, input) == [self EXCEPT !.index = 0, !.play = TRUE]

\* returns the sample and the input handled, if one was
Sample_update_inputs(self) ==
    IF self.inputs # <<>> /\ self.secs_since_start >= self.inputs[1].time
    THEN [self  |-> [Sample_handle_input(self, self.inputs[1].input) EXCEPT
                        !.inputs = Tail(@)],
          input |-> Some(self.inputs[1])]
    ELSE [self |-> self, input |-> None]

\* samples[self.index]: a panic when the index is out of bounds; index i of
\* the source is element i + 1 here
Sample_read(self) ==
    IF self.index < Len(self.samples)
    THEN [panic |-> FALSE, value |-> self.samples[self.index + 1]]
    ELSE [panic |-> TRUE, value |-> 0]

\* a variant without the test for the end of the clip
Sample_next_sample_NoEnd(self) ==
    IF ~self.play THEN [self |-> self, value |-> 0, panic |-> FALSE]
    ELSE With([self EXCEPT !.index = @ + 1],
              LAMBDA s :
                 With(Sample_read(s),
                      LAMBDA r : [self  |-> s, value |-> r.value,
                                  panic |-> r.panic]))

Sample_next_sample(self) ==
    IF ~self.play THEN [self |-> self, value |-> 0, panic |-> FALSE]
    ELSE With([self EXCEPT !.index = @ + 1],
              LAMBDA s :
                 IF s.index >= Len(s.samples)
                 THEN [self  |-> [s EXCEPT !.play = FALSE], value |-> 0,
                       panic |-> FALSE]
                 ELSE With(Sample_read(s),
                           LAMBDA r : [self  |-> s, value |-> r.value,
                                       panic |-> r.panic]))

\* for sample in &mut grain { *sample = self.next_sample(); }, from sample i
RECURSIVE Sample_fill_from(_, _, _)
Sample_fill_from(self, grain, i) ==
    IF i > SAMPLES_PER_GRAIN
    THEN [self |-> self, grain |-> grain, panic |-> FALSE]
    ELSE With(Sample_next_sample(self),
              LAMBDA r :
                 IF r.panic
                 THEN [self |-> self, grain |-> grain, panic |-> TRUE]
                 ELSE With([grain EXCEPT ![i] = r.value],
                           LAMBDA g : Sample_fill_from(r.self, g, i + 1)))

\* for effect in &mut self.effects { ... }, from effect i; the oscillator
\* changes of the effects are dropped
RECURSIVE Sample_effects_from(_, _, _, _, _)
Sample_effects_from(self, grain, time_since_start_of_beat, i, rnd) ==
    IF i > Len(self.effects)
    THEN [self |-> self, grain |-> grain, panic |-> FALSE]
    ELSE With(Effect_apply(self.effects[i],
                           [grain |-> grain,
                            time_since_start_of_beat |->
                                time_since_start_of_beat],
                           rnd),
              LAMBDA r :
                 IF r.panic
                 THEN [self |-> self, grain |-> grain, panic |-> TRUE]
                 ELSE With([self EXCEPT !.effects[i] = r.self],
                           LAMBDA s :
                              Sample_effects_from(
                                  s, r.grain, time_since_start_of_beat,
                                  i + 1, rnd)))

\* returns the sample and the grain, and beside them the input handled, what
\* the next_sample calls returned, and whether an effect panicked
Sample_next_grain(self, rnd) ==
    With(Sample_update_inputs(self), LAMBDA u :
    With(Sample_fill_from(u.self, Repeat(0, SAMPLES_PER_GRAIN), 1), LAMBDA g :
    IF g.panic
    THEN [self |-> g.self, grain |-> g.grain, input |-> u.input,
          returned |-> g.grain, panic |-> TRUE]
    ELSE
    With(Sample_effects_from(g.self, g.grain,
                             FDiv(g.self.index * Q, Len(g.self.samples) * Q),
                             1, rnd),
         LAMBDA e :
            [self |-> e.self, grain |-> e.grain, input |-> u.input,
             returned |-> g.grain, panic |-> e.panic])))

(***************************************************************************)
(* The Sample asked for one grain after another.                           *)
(***************************************************************************)
\* the clips: of one grain and less, and longer than a grain
Clips ==
    { <<11>>, <<11, 22>>, <<11, 22, 33>>, <<-10, 20, -30, 40, -50>> }

\* the trigger lists: none; one at the start; two at the start, the second
\* of which comes while the clip plays; one before the start and one at it;
\* one after the start
TriggerLists ==
    { <<>>,
      << SampleInputAtTime(Trigger, 0) >>,
      << SampleInputAtTime(Trigger, 0), SampleInputAtTime(Trigger, 0) >>,
      << SampleInputAtTime(Trigger, -Ticks(1)),
         SampleInputAtTime(Trigger, 0) >>,
      << SampleInputAtTime(Trigger, Ticks(1)) >> }

SampleEffectChains == { <<>>, << Volume(Number_number(Frac(1, 2))) >> }

SmpInit ==
    /\ \E c \in Clips, l \in TriggerLists, e \in SampleEffectChains :
          smp = SampleBuilder_add_effects(
                    Sample_new(c, Frac(Len(c), SAMPLE_RATE), l), e)
    /\ smp_grain = <<>>
    /\ since_trigger = [grains |-> 0, triggers |-> 0, returned |-> <<>>]
    /\ panicked = FALSE
    /\ PlayerAbsent /\ OscAbsent /\ IterAbsent /\ AuxAbsent

\* the owner of the sample calls next_grain
SmpNextGrain ==
    /\ ~panicked
    /\ since_trigger.grains < MaxGrains
    /\ \E r \in {Sample_next_grain(smp, [i \in 1..SAMPLES_PER_GRAIN |-> 0])} :
          IF r.panic
          THEN /\ panicked' = TRUE
               /\ UNCHANGED <<smp, smp_grain, since_trigger>>
          ELSE /\ smp' = r.self
               /\ smp_grain' = r.grain
               /\ since_trigger' =
                    [grains   |-> since_trigger.grains + 1,
                     triggers |-> since_trigger.triggers
                                    + (IF r.input = None THEN 0 ELSE 1),
                     returned |-> (IF r.input = None
                                   THEN since_trigger.returned
                                   ELSE <<>>) \o r.returned]
               /\ UNCHANGED panicked
    /\ UNCHANGED <<osc, osc_grain, after_inputs, handled, playerVars, iterVars,
                   auxVars>>

SmpNext == SmpNextGrain

SpecSample == SmpInit /\ [][SmpNext]_vars

(***************************************************************************)
(* Claims about the Sample.                                                *)
(***************************************************************************)
\* C10: after a Trigger is handled, the next_sample calls that follow return
\* samples[0], samples[1], ..., samples[len-1] in order: the k-th value
\* returned since the Trigger is the k-th sample of the clip.
C10_TriggerPlaysWholeClip ==
    since_trigger.triggers > 0 =>
        \A k \in 1..Min(Len(since_trigger.returned), Len(smp.samples)) :
            since_trigger.returned[k] = smp.samples[k]

\* C11: an untriggered Sample returns 0.0 from every next_sample call; after
\* a Trigger, every next_sample call made once the cursor has reached the end
\* of the clip returns 0.0, until another Trigger is handled; and no call
\* reads the clip out of bounds (which would be a panic).
C11_SilentPastTheEnd ==
    /\ ~panicked
    /\ since_trigger.triggers = 0 =>
          \A k \in DOMAIN since_trigger.returned :
              since_trigger.returned[k] = 0
    /\ since_trigger.triggers > 0 =>
          \A k \in DOMAIN since_trigger.returned :
              k > Len(smp.samples) => since_trigger.returned[k] = 0
    /\ smp.index > Len(smp.samples) => ~smp.play

\* the clip was triggered twice and ran out both times, the second time a
\* grain and more ago
C11_Witness ==
    /\ since_trigger.triggers = 2
    /\ ~smp.play
    /\ Len(since_trigger.returned) >= Len(smp.samples) + SAMPLES_PER_GRAIN

\* the owner of the sample keeps asking for grains
SpecSampleFair == SpecSample /\ WF_vars(SmpNextGrain)

\* the audio the Sample has produced, in seconds
Produced == since_trigger.grains * SAMPLES_PER_GRAIN * Dt

\* a next_grain call that takes triggers off the queue takes the one at the
\* head, and not before the Sample has produced audio up to its time
C12_Step ==
    smp'.inputs # smp.inputs =>
        /\ smp.inputs # <<>>
        /\ smp'.inputs = Tail(smp.inputs)
        /\ Produced >= smp.inputs[1].time

\* C12: as grains keep being requested, every queued Trigger is eventually
\* handled (the queue empties), in queue order, and none before the Sample
\* has produced audio up to the trigger's time.
C12_TriggersHandledInTime == <>(smp.inputs = <<>>) /\ [][C12_Step]_vars

(***************************************************************************)
(* sample.rs: normalize_sample_length and the compression under it.        *)
(***************************************************************************)
\* the f32 NaN, which 0.0 / 0.0 gives: a value apart from the numbers
NaN == -(10 * Q * Q)

\* f32 products and sums: NaN with a NaN operand
NMul(a, b) == IF a = NaN \/ b = NaN THEN NaN ELSE FMul(a, b)

NAdd(a, b) == IF a = NaN \/ b = NaN THEN NaN ELSE a + b

\* cos of an angle given in turns
CosTurns(x) == SinTurns(x + Q \div 4)

\* 0.5 * (1 - cos(2 pi i / (grain_size - 1))) for i in 0..grain_size; with
\* grain_size = 1 the quotient is 0.0 / 0.0
hanning_window(grain_size) ==
    [j \in 1..grain_size |->
        IF grain_size = 1 THEN NaN
        ELSE (Q - CosTurns(Frac(j - 1, grain_size - 1))) \div 2]

\* a.iter().zip(b.iter()).map(|(a, b)| a * b): as long as the shorter
ZipMul(a, b) == [j \in 1..Min(Len(a), Len(b)) |-> NMul(a[j], b[j])]

\* samples.chunks(SAMPLES_PER_GRAIN)
Chunks(samples) ==
    [c \in 1..((Len(samples) + SAMPLES_PER_GRAIN - 1) \div SAMPLES_PER_GRAIN) |->
        SubSeq(samples, (c - 1) * SAMPLES_PER_GRAIN + 1,
               Min(c * SAMPLES_PER_GRAIN, Len(samples)))]

\* a panic is a usize subtraction below zero or a slice beyond the length
merge_grain_into_buffer(buffer, grain, overlap) ==
    With((overlap * SAMPLES_PER_GRAIN) \div Q, LAMBDA overlap_len :
    IF overlap_len > Len(buffer) \/ overlap_len > Len(grain)
    THEN [panic |-> TRUE, value |-> <<>>]
    ELSE With(Len(buffer) - overlap_len, LAMBDA buffer_keep_len :
         [panic |-> FALSE,
          value |->
             SubSeq(buffer, 1, buffer_keep_len)
             \o [j \in 1..overlap_len |->
                    NAdd(buffer[buffer_keep_len + j], grain[j])]
             \o SubSeq(grain, overlap_len + 1, Len(grain))]))

\* for grain in grains.iter().skip(1) { buffer = merge(...) }, from grain i
RECURSIVE compress_merge_from(_, _, _, _)
compress_merge_from(buffer, grains, speed, i) ==
    IF i > Len(grains) THEN [panic |-> FALSE, value |-> buffer]
    ELSE With(merge_grain_into_buffer(buffer, grains[i], speed),
              LAMBDA m :
                 IF m.panic THEN m
                 ELSE compress_merge_from(m.value, grains, speed, i + 1))

\* `grains` is first the chunks of the clip and then, shadowing them, the
\* windowed chunks but the last; the final grain is made from the last of
\* these, and unwrap panics when there are none
compress(samples, speed) ==
    IF ~(speed > 0 /\ speed <= Q) \/ samples = <<>>
    THEN [panic |-> TRUE, value |-> <<>>]
    ELSE
    With(Chunks(samples), LAMBDA chunks :
    With(Len(chunks[Len(chunks)]), LAMBDA last_grain_len :
    With([c \in 1..(Len(chunks) - 1) |->
             ZipMul(chunks[c], hanning_window(SAMPLES_PER_GRAIN))],
         LAMBDA grains :
    IF grains = <<>> THEN [panic |-> TRUE, value |-> <<>>]
    ELSE
    With(Append(grains,
                ZipMul(grains[Len(grains)], hanning_window(last_grain_len))
                \o Repeat(0, SAMPLES_PER_GRAIN - last_grain_len)),
         LAMBDA all :
    With(compress_merge_from(all[1], all, speed, 2), LAMBDA b :
    IF b.panic THEN b
    ELSE [panic |-> FALSE,
          value |-> SubSeq(b.value, 1,
                           Len(b.value)
                             - (SAMPLES_PER_GRAIN - last_grain_len))])))))

\* a variant that pads a short clip with one zero less
normalize_sample_length_ShortPad(samples, target_length) ==
    IF Len(samples) = target_length THEN [panic |-> FALSE, value |-> samples]
    ELSE IF Len(samples) < target_length
    THEN [panic |-> FALSE,
          value |-> samples
                    \o Repeat(0, target_length - Len(samples) - 1)]
    ELSE [panic |-> TRUE, value |-> <<>>]

normalize_sample_length(samples, target_length) ==
    IF Len(samples) = target_length THEN [panic |-> FALSE, value |-> samples]
    ELSE IF Len(samples) < target_length
    THEN [panic |-> FALSE,
          value |-> samples \o Repeat(0, target_length - Len(samples))]
    ELSE With(compress(samples, FDiv(target_length * Q, Len(samples) * Q)),
              LAMBDA c :
                 IF c.panic THEN c
                 ELSE IF Len(c.value) > target_length
                 THEN [panic |-> FALSE,
                       value |-> SubSeq(c.value, 1, target_length)]
                 ELSE IF Len(c.value) < target_length
                 THEN [panic |-> FALSE,
                       value |-> c.value
                                 \o Repeat(0, target_length - Len(c.value))]
                 ELSE c)

(***************************************************************************)
(* normalize_sample_length applied to a clip, and again to what it gave.   *)
(***************************************************************************)
MaxClipLen == 5

MaxTarget == 4

ClipValues == {-Q, Q \div 2}

ClipsUpTo(n) == UNION { [1..l -> ClipValues] : l \in 0..n }

NrmInit ==
    /\ \E c \in ClipsUpTo(MaxClipLen), t \in 0..MaxTarget :
          nrm = [samples |-> c, target_length |-> t, result |-> None,
                 again |-> None]
    /\ panicked = FALSE
    /\ PlayerAbsent /\ OscAbsent /\ IterAbsent /\ SmpAbsent
    /\ FxAbsent /\ BldAbsent /\ ValAbsent /\ HeapAbsent

\* Sample::new and update_sample_rate: the clip to the target length
Normalize ==
    /\ ~panicked
    /\ nrm.result = None
    /\ \E r \in {normalize_sample_length(nrm.samples, nrm.target_length)} :
          IF r.panic
          THEN panicked' = TRUE /\ UNCHANGED nrm
          ELSE nrm' = [nrm EXCEPT !.result = Some(r.value)]
                 /\ UNCHANGED panicked
    /\ UNCHANGED <<osc, osc_grain, after_inputs, handled, playerVars,
                   iterVars, smpVars, fx, fx_out, bld, valVars, heapVars>>

\* update_sample_rate with the same rate: the result to the same length
NormalizeAgain ==
    /\ ~panicked
    /\ nrm.result # None
    /\ nrm.again = None
    /\ \E r \in {normalize_sample_length(nrm.result[1], nrm.target_length)} :
          IF r.panic
          THEN panicked' = TRUE /\ UNCHANGED nrm
          ELSE nrm' = [nrm EXCEPT !.again = Some(r.value)]
                 /\ UNCHANGED panicked
    /\ UNCHANGED <<osc, osc_grain, after_inputs, handled, playerVars,
                   iterVars, smpVars, fx, fx_out, bld, valVars, heapVars>>

NrmNext == Normalize \/ NormalizeAgain

SpecNormalize == NrmInit /\ [][NrmNext]_vars

\* C13: a clip of the target length comes back unchanged; a shorter clip
\* comes back at exactly the target length, the clip first and then zeros
\* only; neither fails; and a second application with the same target
\* returns its argument.
C13_PadsToLength ==
    /\ Len(nrm.samples) <= nrm.target_length => ~panicked
    /\ nrm.result # None /\ Len(nrm.samples) = nrm.target_length =>
          nrm.result[1] = nrm.samples
    /\ nrm.result # None /\ Len(nrm.samples) < nrm.target_length =>
          /\ Len(nrm.result[1]) = nrm.target_length
          /\ \A k \in 1..nrm.target_length :
                nrm.result[1][k] = IF k <= Len(nrm.samples)
                                   THEN nrm.samples[k] ELSE 0
    /\ nrm.again # None => nrm.again = nrm.result

\* a clip shorter than the target, and not empty, was normalized twice
C13_Witness ==
    /\ nrm.again # None
    /\ 0 < Len(nrm.samples)
    /\ Len(nrm.samples) + 1 < nrm.target_length

\* C14: for a clip longer than the target length n >= 1, whatever its
\* length, normalize_sample_length does not fail and what it returns has
\* exactly n samples.
C14_CompressesToLength ==
    Len(nrm.samples) > nrm.target_length /\ nrm.target_length >= 1 =>
        /\ ~panicked
        /\ nrm.result # None => Len(nrm.result[1]) = nrm.target_length

(***************************************************************************)
(* Claims about the mix of the player.                                     *)
(***************************************************************************)
\* the grains the sounds return to the next_grain calls of one frame
ChildGrains == [s \in DOMAIN sounds |-> LoopSample_next_grain(sounds[s]).grain]

\* the step that stores a new mix stores the sample-wise sum of the grains
\* of the children
C15_Step ==
    mixed' # mixed =>
        /\ Len(current_grain') = SAMPLES_PER_GRAIN
        /\ \A i \in 1..SAMPLES_PER_GRAIN :
              current_grain'[i] =
                  SumSeq([s \in DOMAIN sounds |-> ChildGrains[s][i]])

\* C15: the grain the player mixes from its child sounds is the plain
\* sample-wise sum of the children's grains, not divided by their number and
\* not weighted otherwise.
C15_MixIsPlainSum == [][C15_Step]_vars

(***************************************************************************)
(* One effect on its own, given one sample after another.                  *)
(***************************************************************************)
MaxFxCalls == 3

FilterModes == {"LowPass", "HighPass", "BandPass", "Notch"}

PoleCounts == {1, 2, 4}

\* constant resonances below, at and above 0.95 and 1.0
Resonances ==
    { Number_number(v) :
        v \in {0, Frac(1, 2), Frac(94, 100), Frac(95, 100), Frac(97, 100),
               Q, Frac(3, 2)} }

Filters ==
    { Filter_new(m, Number_number(Frac(1, 2)), r, n) :
        m \in FilterModes, r \in Resonances, n \in PoleCounts }

\* coefficients inside [0, 1], on its ends and outside, and one that starts
\* inside and swings out
Coefficients ==
    { Number_number(v) : v \in {0, Frac(1, 2), Q, Frac(3, 2), -Frac(1, 10)} }
    \cup { Number_sine_around(Frac(8, 10), Frac(1, 4), Frac(1, 2)) }

\* delays of less than a sample, of two samples and of three, without wow
\* and flutter and with them
TapeDelays ==
    { TapeDelay_new(d, mix, feedback, w, Frac(1, 2), 0, Q) :
        d \in {Frac(1, 10), Frac(1, 2), Frac(3, 4)},
        mix \in Coefficients, feedback \in Coefficients,
        w \in {0, Frac(1, 2)} }

FxInputs == {-Q, Q \div 2}

FxInit ==
    /\ fx \in Filters \cup TapeDelays
    /\ fx_out = [calls |-> 0, value |-> None, delay_sample |-> 0,
                 indexed |-> FALSE, feedback |-> None, mix |-> None]
    /\ panicked = FALSE
    /\ PlayerAbsent /\ OscAbsent /\ IterAbsent /\ SmpAbsent
    /\ NrmAbsent /\ BldAbsent /\ ValAbsent /\ HeapAbsent

\* process_sample of a Filter: apply calls it for every sample of a grain
FilterProcess(x) ==
    /\ ~panicked
    /\ fx.kind = "Filter"
    /\ fx_out.calls < MaxFxCalls
    /\ \E r \in {Filter_process_sample(fx, x, 0)} :
          /\ panicked' = r.panic
          /\ fx' = IF r.panic THEN fx ELSE r.self
          /\ fx_out' = [fx_out EXCEPT
                           !.calls = @ + 1,
                           !.value = IF r.panic THEN None ELSE Some(r.value)]
    /\ UNCHANGED <<osc, osc_grain, after_inputs, handled, playerVars,
                   iterVars, smpVars, nrm, bld, valVars, heapVars>>

\* process_sample of a TapeDelay
TapeDelayProcess(x) ==
    /\ ~panicked
    /\ fx.kind = "TapeDelay"
    /\ fx_out.calls < MaxFxCalls
    /\ \E r \in {TapeDelay_process_sample(fx, x, 0)} :
          /\ panicked' = r.panic
          /\ fx' = IF r.panic THEN fx ELSE r.self
          /\ fx_out' = [calls |-> fx_out.calls + 1,
                        value |-> IF r.panic THEN None ELSE Some(r.value),
                        delay_sample |-> r.delay_sample,
                        indexed |-> r.indexed,
                        feedback |-> r.feedback,
                        mix |-> r.mix]
    /\ UNCHANGED <<osc, osc_grain, after_inputs, handled, playerVars,
                   iterVars, smpVars, nrm, bld, valVars, heapVars>>

FxNext ==
    \/ \E x \in FxInputs : FilterProcess(x)
    \/ \E x \in FxInputs : TapeDelayProcess(x)

SpecFx == FxInit /\ [][FxNext]_vars

(***************************************************************************)
(* Claims about the assertions of the effects.                             *)
(***************************************************************************)
\* the value a Number gives to the next call that evaluates it
Current(number) == Number_next_value(number, 0).value

InUnit(v) == v >= 0 /\ v <= Q

\* a process_sample call was made in the step
FxCalled == fx_out'.calls = fx_out.calls + 1

C16_Step ==
    FxCalled /\ fx.kind = "Filter"
             /\ Current(fx.resonance) >= Frac(95, 100) =>
        panicked' /\ fx_out'.value = None

\* C16: for any Filter, whatever its mode and pole count, a process_sample
\* call made while the resonance evaluates to 0.95 or more fails on an
\* assertion and returns no output sample.
C16_ResonanceBelow095 == [][C16_Step]_vars

C17_Step ==
    FxCalled /\ fx.kind = "TapeDelay"
             /\ ~(InUnit(Current(fx.feedback)) /\ InUnit(Current(fx.mix))) =>
        panicked' /\ fx_out'.value = None

\* C17: a TapeDelay process_sample call made while the feedback or the mix
\* evaluates to a value outside [0, 1] fails and returns no output sample;
\* every call that returns a sample had both in [0, 1].
C17_FeedbackAndMixAsserted == [][C17_Step]_vars

\* a delay that processed samples failed when its feedback or its mix swung
\* out of [0, 1]
C17_Witness ==
    /\ fx.kind = "TapeDelay"
    /\ panicked
    /\ fx_out.calls >= 2
    /\ fx.buffer # <<>>
    /\ ~(InUnit(Current(fx.feedback)) /\ InUnit(Current(fx.mix)))

C18_Step ==
    FxCalled /\ fx.kind = "TapeDelay"
             /\ Frac(Len(fx.buffer), SAMPLE_RATE) < fx.read_delay =>
        /\ fx_out'.delay_sample = 0
        /\ ~fx_out'.indexed
        /\ fx_out'.feedback # None

\* C18: a TapeDelay process_sample call made while the buffer holds less
\* than read_delay seconds of samples uses 0.0 as the delayed sample, does
\* not index the buffer, and gets past the read without failing.
C18_SilenceBeforeFilled == [][C18_Step]_vars

\* a delay whose buffer is not full yet returned a sample
C18_Witness ==
    /\ fx.kind = "TapeDelay"
    /\ ~panicked
    /\ fx_out.calls >= 1
    /\ ~fx_out.indexed
    /\ fx_out.value # None
    /\ 0 < Len(fx.buffer)
    /\ Frac(Len(fx.buffer), SAMPLE_RATE) < fx.read_delay

(***************************************************************************)
(* state.rs: Pattern and its builder.                                      *)
(***************************************************************************)
\* the rate a Pattern is made for, on the scale of SAMPLE_RATE
DEFAULT_SAMPLE_RATE == 4

AMPLIFICATION_FACTOR == 100

\* the length of a grain of the history, on the scale of SAMPLES_PER_GRAIN
GRAIN_SIZE_SECONDS == Frac(SAMPLES_PER_GRAIN, DEFAULT_SAMPLE_RATE)

PatternConfig_new(bpm, volume, length_beats) ==
    [bpm |-> bpm, volume |-> volume, length_beats |-> length_beats]

History_new(samples_per_grain) ==
    [samples |-> Repeat(0, samples_per_grain * 2),
     samples_per_grain |-> samples_per_grain]

Pattern_new_with_sample_rate(config, sample_in, trigger_beats, effects, sample_rate) ==
    With(AsUsize(FDiv(60 * Q, config.bpm * Q) * sample_rate),
         LAMBDA samples_per_beat :
    With(sample_in \o Repeat(0, Max(0, samples_per_beat - Len(sample_in))),
         LAMBDA padded :
         [history |-> History_new(AsUsize(GRAIN_SIZE_SECONDS * sample_rate)),
          samples_per_grain |-> AsUsize(GRAIN_SIZE_SECONDS * sample_rate),
          config |-> config,
          sample |->
              [j \in DOMAIN padded |->
                  Clamp(FMul(FMul(padded[j], config.volume),
                             AMPLIFICATION_FACTOR * Q), -Q, Q)],
          trigger_beats |-> trigger_beats,
          effects |-> effects,
          sample_counter |-> 0,
          current_sample_rate |-> sample_rate,
          samples_per_beat |-> samples_per_beat,
          samples_per_pattern |-> samples_per_beat * config.length_beats,
          trigger_map |->
              [b \in 1..config.length_beats |->
                  \E k \in DOMAIN trigger_beats : trigger_beats[k] = b]]))

Pattern_new(config, sample_in, trigger_beats, effects) ==
    Pattern_new_with_sample_rate(config, sample_in, trigger_beats, effects,
                                 DEFAULT_SAMPLE_RATE)

\* Result<Pattern, String>
Ok(x) == [ok |-> TRUE, value |-> x]

Err(e) == [ok |-> FALSE, value |-> e]

(***************************************************************************)
(* The builders.  A builder is the record of its fields; build returns     *)
(* what was built, or panics on the unwrap of a field that is None.        *)
(***************************************************************************)
OscillatorBuilder(wave_function, effects, inputs, adsr) ==
    [kind |-> "OscillatorBuilder", wave_function |-> wave_function,
     effects |-> effects, inputs |-> inputs, adsr |-> adsr]

OscillatorInputIteratorBuilder(inputs, repeat_delay) ==
    [kind |-> "OscillatorInputIteratorBuilder", inputs |-> inputs,
     repeat_delay |-> repeat_delay]

SampleBuilder(samples, sample_rate, secs_per_beat, effects, inputs) ==
    [kind |-> "SampleBuilder", samples |-> samples,
     sample_rate |-> sample_rate, secs_per_beat |-> secs_per_beat,
     effects |-> effects, inputs |-> inputs]

PatternBuilder(config, sample_in, trigger_beats, effects) ==
    [kind |-> "PatternBuilder", config |-> config, sample |-> sample_in,
     trigger_beats |-> trigger_beats, effects |-> effects]

Panic == [panic |-> TRUE, value |-> <<>>]

Returned(x) == [panic |-> FALSE, value |-> x]

\* a variant that builds a sine at 1 Hz when no waveform was given
OscillatorBuilder_build_self_DefaultWave(self) ==
    IF self.inputs = None THEN Panic
    ELSE Returned(OscillatorBuilder_build(
                      IF self.wave_function = None
                      THEN [kind |-> "Sine", frequency |-> Number_number(Q),
                            amplitude |-> Number_number(Q),
                            phase |-> Number_number(0)]
                      ELSE self.wave_function[1],
                      self.effects, self.inputs[1], self.adsr))

\* OscillatorBuilder::build on the builder: self.wave_function.unwrap() and
\* self.inputs.unwrap()
OscillatorBuilder_build_self(self) ==
    IF self.wave_function = None \/ self.inputs = None THEN Panic
    ELSE Returned(OscillatorBuilder_build(self.wave_function[1], self.effects,
                                          self.inputs[1], self.adsr))

\* OscillatorInputIterator::new from the builder: inputs.last().unwrap()
OscillatorInputIteratorBuilder_build(self) ==
    IF self.inputs = <<>> THEN Panic
    ELSE Returned(OscillatorInputIterator_new(self.inputs, self.repeat_delay))

\* SampleBuilder::build: the three unwraps, Sample::new (the clip brought to
\* the target length), then the effects
SampleBuilder_build(self) ==
    IF self.samples = None \/ self.sample_rate = None
         \/ self.secs_per_beat = None
    THEN Panic
    ELSE With(normalize_sample_length(
                  self.samples[1],
                  AsUsize(self.sample_rate[1] * self.secs_per_beat[1])),
              LAMBDA n :
                 IF n.panic THEN Panic
                 ELSE Returned(SampleBuilder_add_effects(
                                   Sample_new(n.value, self.secs_per_beat[1],
                                              self.inputs),
                                   self.effects)))

PatternBuilder_build(self) ==
    IF self.config = None \/ self.sample = None
    THEN Returned(Err("Missing required fields"))
    ELSE Returned(Ok(Pattern_new(self.config[1], self.sample[1],
                                 self.trigger_beats, self.effects)))

(***************************************************************************)
(* A builder, configured in full or in part, and then built.               *)
(***************************************************************************)
BuilderInputs ==
    { OscillatorInputIterator_new(
          << OscillatorInputAtTime(Press(Frac(3, 10)), 0),
             OscillatorInputAtTime(Release, Ticks(2)) >>, d) :
        d \in {None, Some(0)} }

OscillatorBuilders ==
    { OscillatorBuilder(w, <<>>, i, a) :
        w \in {None} \cup {Some(x) : x \in WaveFunctions},
        i \in {None} \cup {Some(x) : x \in BuilderInputs},
        a \in ADSRs }

OscillatorInputIteratorBuilders ==
    { OscillatorInputIteratorBuilder(l, d) :
        l \in { <<>>,
                << OscillatorInputAtTime(PressSame, 0) >>,
                << OscillatorInputAtTime(Press(Frac(3, 10)), 0),
                   OscillatorInputAtTime(Release, Ticks(2)) >> },
        d \in {None, Some(0)} }

SampleBuilders ==
    { SampleBuilder(c, r, s, e, << SampleInputAtTime(Trigger, 0) >>) :
        c \in {None, Some(<<11>>), Some(<<11, 22, 33>>)},
        r \in {None, Some(SAMPLE_RATE)},
        s \in {None, Some(Frac(1, 2)), Some(Frac(3, 4))},
        e \in SampleEffectChains }

PatternBuilders ==
    { PatternBuilder(c, s, t, <<>>) :
        c \in {None, Some(PatternConfig_new(60, Frac(1, 100), 2))},
        s \in {None, Some(<<Q>>), Some(<<Q, -Q, Q \div 2>>)},
        t \in { <<>>, <<1>>, <<2, 3>> } }

BldInit ==
    /\ \E b \in OscillatorBuilders \cup OscillatorInputIteratorBuilders
                  \cup SampleBuilders \cup PatternBuilders :
          bld = [builder |-> b, result |-> None]
    /\ panicked = FALSE
    /\ PlayerAbsent /\ OscAbsent /\ IterAbsent /\ SmpAbsent
    /\ NrmAbsent /\ FxAbsent /\ ValAbsent /\ HeapAbsent

\* build is called on the builder, which it consumes
Build(kind, r) ==
    /\ ~panicked
    /\ bld.result = None
    /\ bld.builder.kind = kind
    /\ panicked' = r.panic
    /\ bld' = IF r.panic THEN bld ELSE [bld EXCEPT !.result = Some(r.value)]
    /\ UNCHANGED <<osc, osc_grain, after_inputs, handled, playerVars,
                   iterVars, smpVars, nrm, fx, fx_out, valVars, heapVars>>

BuildOscillator ==
    /\ bld.builder.kind = "OscillatorBuilder"
    /\ \E r \in {OscillatorBuilder_build_self(bld.builder)} :
          Build("OscillatorBuilder", r)

BuildInputIterator ==
    /\ bld.builder.kind = "OscillatorInputIteratorBuilder"
    /\ \E r \in {OscillatorInputIteratorBuilder_build(bld.builder)} :
          Build("OscillatorInputIteratorBuilder", r)

BuildSample ==
    /\ bld.builder.kind = "SampleBuilder"
    /\ \E r \in {SampleBuilder_build(bld.builder)} :
          Build("SampleBuilder", r)

BuildPattern ==
    /\ bld.builder.kind = "PatternBuilder"
    /\ \E r \in {PatternBuilder_build(bld.builder)} :
          Build("PatternBuilder", r)

BldNext ==
    \/ BuildOscillator
    \/ BuildInputIterator
    \/ BuildSample
    \/ BuildPattern

SpecBuild == BldInit /\ [][BldNext]_vars

(***************************************************************************)
(* Claims about construction.                                              *)
(***************************************************************************)
\* the builder lacks a field that its node requires
Missing(b) ==
    CASE b.kind = "OscillatorBuilder" ->
            b.wave_function = None \/ b.inputs = None
      [] b.kind = "OscillatorInputIteratorBuilder" -> b.inputs = <<>>
      [] b.kind = "SampleBuilder" ->
            b.samples = None \/ b.sample_rate = None \/ b.secs_per_beat = None
      [] b.kind = "PatternBuilder" -> b.config = None \/ b.sample = None

\* C19: a build without the required configuration never yields a usable
\* node: for the Oscillator, the input iterator and the Sample nothing is
\* returned (the build aborts), and for the Pattern what is returned is an
\* error and no Pattern; and such a build, once made, has aborted or
\* returned the error.
C19_NoNodeWithoutConfig ==
    /\ Missing(bld.builder) /\ bld.result # None =>
          /\ bld.builder.kind = "PatternBuilder"
          /\ ~bld.result[1].ok
    /\ panicked /\ bld.builder.kind = "PatternBuilder" => FALSE
    /\ bld.result # None /\ bld.builder.kind = "PatternBuilder" =>
          (bld.result[1].ok <=> ~Missing(bld.builder))

\* an Oscillator build without a waveform has aborted
C19_Witness ==
    /\ bld.builder.kind = "OscillatorBuilder"
    /\ bld.builder.wave_function = None
    /\ bld.builder.inputs # None
    /\ panicked

(***************************************************************************)
(* Oscillators built with any ADSR a caller can write.                     *)
(***************************************************************************)
\* envelopes with negative and positive durations and with sustain
\* multipliers below, inside and above [0, 1]
AnyADSRs ==
    { ADSR_new(a, d, s, r) :
        a \in {-Ticks(1), Ticks(3)}, d \in {-Ticks(2), Ticks(2)},
        s \in {-Frac(1, 2), Frac(1, 2), Frac(3, 2)},
        r \in {-Ticks(1), Ticks(3)} }

AdsrInit ==
    /\ \E k \in {"Sine", "Triangle"}, a \in AnyADSRs,
          l \in { << OscillatorInputAtTime(Press(Frac(3, 10)), 0),
                     OscillatorInputAtTime(Release, Ticks(2 * SAMPLES_PER_GRAIN)) >>,
                  << OscillatorInputAtTime(Release, 0),
                     OscillatorInputAtTime(Press(Frac(7, 10)), Ticks(1)) >> } :
          osc = OscillatorBuilder_build(
                    Wave(k, Number_number(Frac(1, 2))), <<>>,
                    OscillatorInputIterator_new(l, None), Some(a))
    /\ osc_grain = <<>>
    /\ after_inputs = osc
    /\ handled = <<>>
    /\ panicked = FALSE
    /\ PlayerAbsent /\ IterAbsent /\ SmpAbsent /\ AuxAbsent

SpecAdsr == AdsrInit /\ [][OscNext]_vars

WellFormed(adsr) ==
    /\ adsr.attack_duration >= 0
    /\ adsr.decay_duration >= 0
    /\ adsr.release_duration >= 0
    /\ adsr.sustain_amplitude_multiplier >= 0
    /\ adsr.sustain_amplitude_multiplier <= Q

\* C20: malformed ADSR parameters are rejected at construction, so every
\* Oscillator that has produced a grain has an envelope with non-negative
\* durations and a sustain multiplier in [0, 1].
C20_NoMalformedEnvelope == osc_grain # <<>> => WellFormed(osc.adsr)

(***************************************************************************)
(* effects.rs: a four-pole Filter fed a constant input, sample after       *)
(* sample.  The run has no last tick: the Filter is processed for as long  *)
(* as it does not fail, and every state of every run is examined.          *)
(***************************************************************************)
\* constant resonances of [0, 0.94]
LadderResonances == {0, Frac(1, 2), Frac(94, 100)}

\* constant cutoff frequencies (Hz) from 0 up: at SAMPLE_RATE they give the
\* pole coefficients 0, 0.14, 0.52, 0.74, 0.89 and 1
LadderCutoffs == {0, Frac(1, 10), Frac(1, 2), Q, 2 * Q, 6000 * Q}

\* constant inputs of [-1, 1]
LadderInputs == {-Q, -Frac(1, 2), 0, Frac(1, 4), Q}

LadderInit ==
    /\ \E m \in FilterModes, r \in LadderResonances, c \in LadderCutoffs :
          fx = Filter_new(m, Number_number(c), Number_number(r), 4)
    /\ \E x \in LadderInputs : fx_out = [input |-> x, value |-> None]
    /\ panicked = FALSE
    /\ PlayerAbsent /\ OscAbsent /\ IterAbsent /\ SmpAbsent
    /\ NrmAbsent /\ BldAbsent /\ ValAbsent /\ HeapAbsent

\* one sample tick: process_sample on the constant input
LadderTick ==
    /\ ~panicked
    /\ \E r \in {Filter_process_sample(fx, fx_out.input, 0)} :
          /\ panicked' = r.panic
          /\ fx' = IF r.panic THEN fx ELSE r.self
          /\ fx_out' = [fx_out EXCEPT
                           !.value = IF r.panic THEN None ELSE Some(r.value)]
    /\ UNCHANGED <<osc, osc_grain, after_inputs, handled, playerVars,
                   iterVars, smpVars, nrm, bld, valVars, heapVars>>

LadderNext == LadderTick

SpecLadder == LadderInit /\ [][LadderNext]_vars

\* 1 + 5.5 * 1.4: the input, and the largest feedback a stage output of
\* 1.4 can give at a resonance of 1
LadderBound == Q + FMul(Frac(55, 10), Frac(14, 10))

\* C21: a four-pole Filter with a constant resonance in [0, 0.94], a constant
\* cutoff frequency >= 0 and a constant input in [-1, 1] never fails, and at
\* every sample tick its output and the stored state of each of its poles
\* are within 1 + 5.5 * 1.4 in absolute value.
C21_LadderStaysBounded ==
    /\ ~panicked
    /\ \A i \in 1..Len(fx.poles) : Abs(fx.poles[i].previous_output) <= LadderBound
    /\ fx_out.value # None => Abs(fx_out.value[1]) <= LadderBound

\* a Filter at resonance 0.94 whose feedback drove the first pole beyond the
\* range of the input
C21_Witness ==
    /\ fx_out.value # None
    /\ fx.resonance = Number_number(Frac(94, 100))
    /\ fx.poles[4].previous_output # 0
    /\ Abs(fx.poles[1].previous_output) > Q

(***************************************************************************)
(* oscillators.rs: the Number of the earlier oscillator module.  Its       *)
(* Oscillator variant holds a whole Oscillator (input queue, state, ADSR), *)
(* and next_value asks it for a sample with next_sample.                   *)
(***************************************************************************)
Number_square_around(middle, plus_or_minus, frequency) ==
    Number_plus_f32(
        Number_oscillator(
            LFOBuilder_build([kind      |-> "Square",
                              frequency |-> Number_number(frequency),
                              amplitude |-> Number_number(plus_or_minus),
                              phase     |-> Number_number(0)], 0)),
        middle)

\* OscillatorBuilder::new().wave_function(w).auto_play().build(): auto_play
\* queues a PressSame at 0.0; build sorts the inputs and starts Idle
oscillators_auto_play_build(wave_function) ==
    [wave_function |-> wave_function, index |-> 0, effects |-> <<>>,
     phase |-> 0,
     inputs |-> <<OscillatorInputAtTime(PressSame, 0)>>,
     state |-> Idle, secs_since_start |-> 0,
     adsr |-> ADSR_new(Frac(1, 10), Frac(1, 10), Q, Frac(1, 10))]

oscillators_Number_around(kind, middle, plus_or_minus, frequency) ==
    Number_plus_f32(
        Number_oscillator(
            oscillators_auto_play_build(
                [kind      |-> kind,
                 frequency |-> Number_number(frequency),
                 amplitude |-> Number_number(plus_or_minus),
                 phase     |-> Number_number(0)])),
        middle)

oscillators_Number_sine_around(middle, plus_or_minus, frequency) ==
    oscillators_Number_around("Sine", middle, plus_or_minus, frequency)

oscillators_Number_square_around(middle, plus_or_minus, frequency) ==
    oscillators_Number_around("Square", middle, plus_or_minus, frequency)

RECURSIVE oscillators_Number_next_value(_)

\* WaveFunction::next_value of oscillators.rs for the waveforms the two
\* factories build; its Square is the sign of the sine
oscillators_WaveFunction_next_value(self, accumulated_phase, dt) ==
    With(<<oscillators_Number_next_value(self.frequency),
           oscillators_Number_next_value(self.amplitude),
           oscillators_Number_next_value(self.phase)>>, LAMBDA n :
    With(AdvancePhase(accumulated_phase, n[1].value, dt), LAMBDA acc :
         [self  |-> [self EXCEPT !.frequency = n[1].self,
                                 !.amplitude = n[2].self,
                                 !.phase = n[3].self],
          phase |-> acc,
          value |-> CASE self.kind = "Sine" ->
                            FMul(n[2].value, Sin(acc + n[3].value))
                      [] self.kind = "Square" ->
                            FMul(n[2].value,
                                 IF Sin(acc + n[3].value) > 0 THEN Q ELSE -Q)]))

\* Sound::next_sample of oscillators.rs: the input queue is not looked at
oscillators_Oscillator_next_sample(self) ==
    IF self.state.kind = "Idle"
    THEN [self |-> [self EXCEPT !.secs_since_start = @ + Dt], value |-> 0]
    ELSE With(oscillators_WaveFunction_next_value(self.wave_function,
                                                  self.phase, Dt),
              LAMBDA r :
                 [self  |-> [self EXCEPT !.secs_since_start = @ + Dt,
                                         !.index = @ + 1,
                                         !.wave_function = r.self,
                                         !.phase = r.phase],
                  value |-> r.value])

oscillators_Number_next_value(self) ==
    IF self.kind = "Number"
    THEN [self |-> self, value |-> FMul(self.mul, self.value) + self.plus]
    ELSE With(oscillators_Oscillator_next_sample(self.oscillator),
              LAMBDA r : [self  |-> [self EXCEPT !.oscillator = r.self],
                          value |-> FMul(self.mul, r.value) + self.plus])

(***************************************************************************)
(* A value built by sine_around or square_around, asked for one value      *)
(* after another.                                                          *)
(***************************************************************************)
\* next_value calls made on a value in a run
MaxValueCalls == 4

\* middle values, amplitudes and frequencies (Hz, below SAMPLE_RATE / 2),
\* the last two not zero
Middles == {0, Frac(1, 2)}

Amplitudes == {Frac(1, 4), Q}

LfoFrequencies == {Frac(1, 4), Frac(1, 2), Q}

NumInit ==
    /\ \E m \in Middles, a \in Amplitudes, f \in LfoFrequencies :
          num \in { [impl |-> "lfo", middle |-> m,
                     number |-> Number_sine_around(m, a, f)],
                    [impl |-> "lfo", middle |-> m,
                     number |-> Number_square_around(m, a, f)],
                    [impl |-> "oscillators", middle |-> m,
                     number |-> oscillators_Number_sine_around(m, a, f)],
                    [impl |-> "oscillators", middle |-> m,
                     number |-> oscillators_Number_square_around(m, a, f)] }
    /\ num_out = [calls |-> 0, value |-> None, advanced |-> TRUE,
                  moved |-> FALSE]
    /\ panicked = FALSE
    /\ twin = Absent
    /\ PlayerAbsent /\ OscAbsent /\ IterAbsent /\ SmpAbsent
    /\ NrmAbsent /\ FxAbsent /\ BldAbsent /\ HeapAbsent

\* the record of a next_value call that left the Number as r.self and
\* returned r.value
ValueCall(r) ==
    /\ num' = [num EXCEPT !.number = r.self]
    /\ num_out' = [calls    |-> num_out.calls + 1,
                   value    |-> Some(r.value),
                   advanced |-> /\ num_out.advanced
                                /\ r.self.oscillator.phase
                                     # num.number.oscillator.phase,
                   moved    |-> num_out.moved \/ r.value # num.middle]
    /\ UNCHANGED <<oscVars, playerVars, iterVars, smpVars, nrm, fx, fx_out,
                   bld, twin, heapVars>>

\* Number::next_value of oscillator/lfo.rs
LfoNextValue ==
    /\ num.impl = "lfo"
    /\ num_out.calls < MaxValueCalls
    /\ \E r \in {Number_next_value(num.number, 0)} : ValueCall(r)

\* Number::next_value of oscillators.rs
OscillatorsNextValue ==
    /\ num.impl = "oscillators"
    /\ num_out.calls < MaxValueCalls
    /\ \E r \in {oscillators_Number_next_value(num.number)} : ValueCall(r)

NumNext == LfoNextValue \/ OscillatorsNextValue

SpecNum == NumInit /\ [][NumNext]_vars

\* C22: a value built by sine_around or square_around (amplitude and
\* frequency not zero), in either implementation of Number, runs from the
\* first next_value call on without any input being processed: every call
\* made so far advanced the phase of the underlying oscillator, and the
\* values returned so far are not all equal to the middle value.
C22_RunsFromTheStart ==
    num_out.calls >= 1 => num_out.advanced /\ num_out.moved

(***************************************************************************)
(* The Clone impls and clone_box: effects.rs, sample.rs, oscillator.rs.    *)
(* The derived Clone of Number, LFO, WaveFunction, Volume, Filter and      *)
(* Saturation copies every field.                                          *)
(***************************************************************************)
Reverse(s) == [i \in 1..Len(s) |-> s[Len(s) + 1 - i]]

\* impl Clone for TapeDelay: every sample of the buffer, oldest first, is
\* inserted at index 0 of the new buffer
TapeDelay_clone(self) ==
    [self EXCEPT
        !.buffer = Reverse(@),
        !.capacity = AsUsize(self.read_delay * SAMPLE_RATE) + self.extra_space]

\* Box::new(self.clone()) of the effect
Effect_clone_box(self) ==
    IF self.kind = "TapeDelay" THEN TapeDelay_clone(self) ELSE self

Sample_clone_box(self) ==
    [self EXCEPT
        !.effects = [i \in DOMAIN @ |-> Effect_clone_box(@[i])]]

Oscillator_clone_box(self) ==
    [self EXCEPT
        !.effects = [i \in DOMAIN @ |-> Effect_clone_box(@[i])]]

(***************************************************************************)
(* A Sound or an Effect and a clone of it, given the same inputs.          *)
(***************************************************************************)
\* grains the original and the clone are asked for, or given, in a run
MaxTwinCalls == 3

\* a TapeDelay of two samples and one of three, without wow and flutter
CloneDelays ==
    { TapeDelay_new(d, Number_number(Frac(1, 2)), Number_number(Frac(1, 2)),
                    0, Frac(1, 2), 0, Q) : d \in {Frac(1, 2), Frac(3, 4)} }

\* the effects cloned: a Volume driven by an LFO, a four-pole Filter with
\* resonance, a Saturation, and the delays
CloneEffects ==
    { Volume(Number_sine_around(Frac(1, 2), Frac(1, 4), Frac(1, 2))),
      Filter_new("LowPass", Number_number(Q), Number_number(Frac(1, 2)), 4),
      Saturation_new(Number_number(2 * Q), Number_number(Frac(7, 10)),
                     Frac(1, 2), 0) }
    \cup CloneDelays

\* the sounds cloned: Samples triggered at the start, bare, with a Filter
\* and with a delay; Oscillators pressed at the start, bare, with a Volume
\* and with a delay
CloneSounds ==
    { [kind |-> "Sample",
       node |-> SampleBuilder_add_effects(
                    Sample_new(<<-10, 20, -30, 40, -50>>, Frac(5, SAMPLE_RATE),
                               <<SampleInputAtTime(Trigger, 0)>>), e)] :
        e \in { <<>>,
                <<Filter_new("LowPass", Number_number(Q), Number_number(0), 1)>> }
              \cup { <<d>> : d \in CloneDelays } }
    \cup
    { [kind |-> "Oscillator",
       node |-> OscillatorBuilder_build(
                    Wave("Sine", Number_sine_around(Frac(1, 2), Frac(1, 4),
                                                    Frac(3, 10))),
                    e,
                    OscillatorInputIterator_new(
                        <<OscillatorInputAtTime(Press(Frac(3, 10)), 0)>>, None),
                    Some(ADSR_new(Ticks(3), Ticks(2), Frac(1, 2), Ticks(3))))] :
        e \in { <<>>, <<Volume(Number_number(Frac(1, 2)))>> }
              \cup { <<d>> : d \in CloneDelays } }

\* the grains an effect is given; a Sound takes its inputs from its queue
TwinInputs(kind) ==
    IF kind = "Effect" THEN [1..SAMPLES_PER_GRAIN -> FxInputs]
    ELSE {Repeat(0, SAMPLES_PER_GRAIN)}

TwinInit ==
    /\ \E o \in { [kind |-> "Effect", node |-> e] : e \in CloneEffects }
                \cup CloneSounds :
          twin = [kind |-> o.kind, original |-> o.node, clone |-> None,
                  calls |-> 0, out |-> None]
    /\ panicked = FALSE
    /\ num = Absent /\ num_out = Absent
    /\ PlayerAbsent /\ OscAbsent /\ IterAbsent /\ SmpAbsent
    /\ NrmAbsent /\ FxAbsent /\ BldAbsent /\ HeapAbsent

\* apply of an Effect on the grain, next_grain of a Sound: the node as the
\* call leaves it, the grain, and whether the call panicked
Twin_next(kind, node, grain) ==
    With(Repeat(0, SAMPLES_PER_GRAIN), LAMBDA rnd :
    With(CASE kind = "Effect" ->
                 Effect_apply(node,
                              [grain |-> grain,
                               time_since_start_of_beat |-> 0], rnd)
           [] kind = "Sample" -> Sample_next_grain(node, rnd)
           [] kind = "Oscillator" -> Oscillator_next_grain(node, rnd),
         LAMBDA r : [self |-> r.self, panic |-> r.panic,
                     grain |-> IF r.panic THEN None ELSE Some(r.grain)]))

\* the original is used before it is cloned
TwinAdvance(g) ==
    /\ ~panicked
    /\ twin.clone = None
    /\ twin.calls < MaxTwinCalls
    /\ \E r \in {Twin_next(twin.kind, twin.original, g)} :
          /\ panicked' = r.panic
          /\ twin' = [twin EXCEPT !.original = r.self, !.calls = @ + 1]
    /\ UNCHANGED <<osc, osc_grain, after_inputs, handled, playerVars,
                   iterVars, smpVars, nrm, fx, fx_out, bld, num, num_out,
                   heapVars>>

\* clone_box
TwinClone ==
    /\ ~panicked
    /\ twin.clone = None
    /\ twin' = [twin EXCEPT
                   !.clone =
                       Some(CASE twin.kind = "Effect" ->
                                     Effect_clone_box(twin.original)
                              [] twin.kind = "Sample" ->
                                     Sample_clone_box(twin.original)
                              [] twin.kind = "Oscillator" ->
                                     Oscillator_clone_box(twin.original))]
    /\ UNCHANGED <<oscVars, playerVars, iterVars, smpVars, nrm, fx, fx_out,
                   bld, num, num_out,
                   heapVars>>

\* the original and the clone are given the same input
TwinBoth(g) ==
    /\ ~panicked
    /\ twin.clone # None
    /\ twin.calls < MaxTwinCalls
    /\ \E r \in {<<Twin_next(twin.kind, twin.original, g),
                   Twin_next(twin.kind, twin.clone[1], g)>>} :
          /\ panicked' = (r[1].panic \/ r[2].panic)
          /\ twin' = [twin EXCEPT
                         !.original = r[1].self,
                         !.clone = Some(r[2].self),
                         !.calls = @ + 1,
                         !.out = Some([original |-> r[1].grain,
                                       clone    |-> r[2].grain])]
    /\ UNCHANGED <<osc, osc_grain, after_inputs, handled, playerVars,
                   iterVars, smpVars, nrm, fx, fx_out, bld, num, num_out,
                   heapVars>>

TwinNext ==
    \/ \E g \in TwinInputs(twin.kind) : TwinAdvance(g)
    \/ TwinClone
    \/ \E g \in TwinInputs(twin.kind) : TwinBoth(g)

SpecTwin == TwinInit /\ [][TwinNext]_vars

\* C23: from the moment of cloning, a clone of a Sound or an Effect without
\* random waveform and its original, given the same inputs, return the same
\* grains (and fail together); a TapeDelay with samples in its buffer
\* included.
C23_CloneBehavesAlike ==
    twin.out # None => twin.out[1].original = twin.out[1].clone

(***************************************************************************)
(* player.rs: play_composition.  A Box is a cell of the heap, known by its *)
(* address (its index in `heap`); a Sound's cell holds the Sound with the  *)
(* addresses of its effects' Boxes in place of the effects.                *)
(***************************************************************************)
\* Box::new of a Sound given with its effects: a Box per effect, then the
\* Sound's own; the heap after, and the Sound's address
Box_new(h, o) ==
    LET n == Len(o.node.effects)
    IN  [heap |-> (h \o [i \in 1..n |->
                            [is |-> "Effect", node |-> o.node.effects[i]]])
                  \o <<[is   |-> o.kind,
                        node |-> [o.node EXCEPT
                                     !.effects = [i \in 1..n |-> Len(h) + i]]]>>,
         addr |-> Len(h) + n + 1]

\* the Boxes a Sound owns: its own and those of its effects
Owned(h, a) ==
    {a} \cup { h[a].node.effects[i] : i \in DOMAIN h[a].node.effects }

\* the Sound behind a Box, its effects read through their Boxes
Load(h, a) ==
    [h[a].node EXCEPT !.effects = [i \in DOMAIN @ |-> h[@[i]].node]]

\* the heap after a `&mut self` call left the Sound of Box a as v: the
\* Sound's fields in its Box, each effect in its own
Store(h, a, v) ==
    LET effects == h[a].node.effects
    IN  [b \in DOMAIN h |->
            IF b = a THEN [h[a] EXCEPT !.node = [v EXCEPT !.effects = effects]]
            ELSE IF \E i \in DOMAIN effects : effects[i] = b
            THEN [h[b] EXCEPT
                     !.node = v.effects[CHOOSE i \in DOMAIN effects :
                                            effects[i] = b]]
            ELSE h[b]]

\* a variant whose new Box holds the addresses of the original's effects
Box_clone_box_SharedEffects(h, a) ==
    [heap |-> Append(h, h[a]), addr |-> Len(h) + 1]

\* sound.clone_box() on a Box<dyn Sound>: a new Box for the clone and for
\* each of its effects
Box_clone_box(h, a) ==
    Box_new(h, [kind |-> h[a].is,
                node |-> IF h[a].is = "Sample"
                         THEN Sample_clone_box(Load(h, a))
                         ELSE Oscillator_clone_box(Load(h, a))])

\* a variant that lengthens the clip of a Sample by the target length
Sound_update_sample_rate_Extends(is, self, sample_rate) ==
    IF is = "Sample"
    THEN [self  |-> [self EXCEPT
                        !.samples =
                            @ \o Repeat(0, AsUsize(sample_rate
                                                     * self.secs_per_beat))],
          panic |-> FALSE]
    ELSE [self |-> self, panic |-> FALSE]

\* Sound::update_sample_rate: a Sample brings its clip to
\* sample_rate * secs_per_beat samples, an Oscillator does nothing
Sound_update_sample_rate(is, self, sample_rate) ==
    IF is = "Sample"
    THEN With(normalize_sample_length(
                  self.samples, AsUsize(sample_rate * self.secs_per_beat)),
              LAMBDA r :
                 [self  |-> IF r.panic THEN self
                            ELSE [self EXCEPT !.samples = r.value],
                  panic |-> r.panic])
    ELSE [self |-> self, panic |-> FALSE]

\* composition.sounds.values().map(|sound| { let mut cloned_sound =
\* sound.clone_box(); cloned_sound.update_sample_rate(sample_rate);
\* cloned_sound }).collect(), from sound i on
RECURSIVE play_composition_from(_, _, _, _, _)
play_composition_from(h, composition, sample_rate, i, cloned) ==
    IF i > Len(composition)
    THEN [heap |-> h, sounds |-> cloned, panic |-> FALSE]
    ELSE With(Box_clone_box(h, composition[i]), LAMBDA c :
         With(Sound_update_sample_rate(c.heap[c.addr].is,
                                       Load(c.heap, c.addr), sample_rate),
              LAMBDA u :
                 IF u.panic
                 THEN [heap |-> h, sounds |-> cloned, panic |-> TRUE]
                 ELSE play_composition_from(
                          Store(c.heap, c.addr, u.self), composition,
                          sample_rate, i + 1, Append(cloned, c.addr))))

\* the sounds handed to build_stream
play_composition(h, composition, sample_rate) ==
    play_composition_from(h, composition, sample_rate, 1, <<>>)

\* next_grain on the Sound of a Box
Box_next_grain(h, a) ==
    With(Twin_next(h[a].is, Load(h, a), Repeat(0, SAMPLES_PER_GRAIN)),
         LAMBDA r : [heap  |-> IF r.panic THEN h ELSE Store(h, a, r.self),
                     panic |-> r.panic])

(***************************************************************************)
(* A composition that is played, while its owner goes on using it.         *)
(***************************************************************************)
\* next_grain calls in a run
MaxPlayCalls == 3

\* the sounds of a composition: those cloned above that have an effect
\* (of the delays, the one of two samples), and a Sample built for half the
\* device's rate, whose clip update_sample_rate pads
PlaySounds ==
    { o \in CloneSounds :
        /\ o.node.effects # <<>>
        /\ o.node.effects[1].kind = "TapeDelay" =>
              o.node.effects[1].read_delay = Frac(1, 2) }
    \cup { [kind |-> "Sample",
            node |-> Sample_new(<<11, 22>>, Q,
                                <<SampleInputAtTime(Trigger, 0)>>)] }

RECURSIVE Box_all(_, _, _)
\* the sounds boxed one after another: the heap and their addresses
Box_all(h, objects, addrs) ==
    IF objects = <<>> THEN [heap |-> h, composition |-> addrs]
    ELSE With(Box_new(h, Head(objects)), LAMBDA b :
              Box_all(b.heap, Tail(objects), Append(addrs, b.addr)))

PlayInit ==
    /\ \E n \in 1..MaxSounds : \E objects \in [1..n -> PlaySounds] :
       \E b \in {Box_all(<<>>, objects, <<>>)} :
          /\ heap = b.heap
          /\ play = [composition |-> b.composition, sounds |-> None,
                     calls |-> 0, last |-> None]
    /\ panicked = FALSE
    /\ PlayerAbsent /\ OscAbsent /\ IterAbsent /\ SmpAbsent
    /\ NrmAbsent /\ FxAbsent /\ BldAbsent /\ ValAbsent

\* play_composition(&composition), up to build_stream
PlayComposition ==
    /\ ~panicked
    /\ play.sounds = None
    /\ \E r \in {play_composition(heap, play.composition, SAMPLE_RATE)} :
          /\ panicked' = r.panic
          /\ heap' = r.heap
          /\ play' = IF r.panic THEN play
                     ELSE [play EXCEPT !.sounds = Some(r.sounds),
                                       !.last = Some([who |-> "play"])]
    /\ UNCHANGED <<osc, osc_grain, after_inputs, handled, playerVars,
                   iterVars, smpVars, nrm, fx, fx_out, bld, valVars>>

\* next_grain on the Box a, by `who`, for its sound number i
PlayNextGrain(who, i, a) ==
    /\ ~panicked
    /\ play.calls < MaxPlayCalls
    /\ \E r \in {Box_next_grain(heap, a)} :
          /\ panicked' = r.panic
          /\ heap' = r.heap
          /\ play' = [play EXCEPT
                         !.calls = @ + 1,
                         !.last = Some([who |-> who, index |-> i])]
    /\ UNCHANGED <<osc, osc_grain, after_inputs, handled, playerVars,
                   iterVars, smpVars, nrm, fx, fx_out, bld, valVars>>

\* the audio callback asks a sound of the stream for a grain
StreamNextGrain(j) ==
    /\ play.sounds # None
    /\ PlayNextGrain("clone", j, play.sounds[1][j])

\* the owner of the composition asks one of its sounds for a grain
OwnerNextGrain(i) == PlayNextGrain("original", i, play.composition[i])

PlayNext ==
    \/ PlayComposition
    \/ \E j \in DOMAIN play.composition : StreamNextGrain(j)
    \/ \E i \in DOMAIN play.composition : OwnerNextGrain(i)

SpecPlay == PlayInit /\ [][PlayNext]_vars

\* the step is a next_grain call by `who`
Advanced(who) ==
    /\ play'.calls = play.calls + 1
    /\ play'.last # None
    /\ play'.last[1].who = who

C24_Step ==
    /\ play.sounds = None /\ play'.sounds # None =>
          /\ SubSeq(heap', 1, Len(heap)) = heap
          /\ \A j \in DOMAIN play.composition :
                /\ Owned(heap', play'.sounds[1][j])
                      \cap (1..Len(heap)) = {}
                /\ Load(heap', play'.sounds[1][j])
                      = Sound_update_sample_rate(
                            heap[play.composition[j]].is,
                            Load(Box_clone_box(heap, play.composition[j]).heap,
                                 Box_clone_box(heap, play.composition[j]).addr),
                            SAMPLE_RATE).self
    /\ Advanced("clone") =>
          \A i \in DOMAIN play.composition :
             /\ Load(heap', play.composition[i]) = Load(heap, play.composition[i])
             /\ \A a \in Owned(heap, play.composition[i]) : heap'[a] = heap[a]
    /\ Advanced("original") /\ play.sounds # None =>
          \A j \in DOMAIN play.sounds[1] :
             /\ Load(heap', play.sounds[1][j]) = Load(heap, play.sounds[1][j])
             /\ \A a \in Owned(heap, play.sounds[1][j]) : heap'[a] = heap[a]

\* C24: play_composition leaves every Box of the caller's composition as it
\* was and streams from new Boxes, the clone_box of each sound after
\* update_sample_rate with the device rate; a next_grain call on a sound of
\* the stream changes no Box of the composition, and a next_grain call on a
\* sound of the composition changes no Box of the stream.
C24_StreamsFromClones == [][C24_Step]_vars

\* a sound of the stream with an effect has been asked for a grain after
\* the owner advanced the original, and the two have diverged
C24_Witness ==
    /\ ~panicked
    /\ play.sounds # None
    /\ play.calls >= 2
    /\ play.last[1].who = "clone"
    /\ \E j \in DOMAIN play.composition :
          /\ heap[play.sounds[1][j]].node.effects # <<>>
          /\ Load(heap, play.sounds[1][j]).index
                # Load(heap, play.composition[j]).index
          /\ Load(heap, play.composition[j]).index > 0

(***************************************************************************)
(* oscillator/lfo.rs: plus_f32 and mul_f32 applied one after the other to  *)
(* a Number, and the Number they give evaluated beside the one they took.  *)
(***************************************************************************)
\* the Numbers wrapped: constants, a constant that has an offset and a
\* scale already, and a value driven by an LFO
WrapBases ==
    { Number_number(v) : v \in {0, Q, -Frac(1, 2)} }
    \cup { Number_plus_f32(Number_mul_f32(Number_number(Q), 2 * Q), Q),
           Number_sine_around(Frac(1, 2), Frac(1, 4), Frac(1, 2)) }

\* the operands of plus_f32 and of mul_f32
WrapOffsets == {0, Frac(1, 2), -Q}

WrapScales == {Q, 2 * Q, Frac(1, 2)}

WrapInit ==
    /\ \E n \in WrapBases, a \in WrapOffsets, b \in WrapScales :
          num = [base |-> n, a |-> a, b |-> b, order |-> None,
                 number |-> None]
    /\ num_out = [calls |-> 0, raw |-> None, base |-> None, value |-> None]
    /\ panicked = FALSE
    /\ twin = Absent
    /\ PlayerAbsent /\ OscAbsent /\ IterAbsent /\ SmpAbsent
    /\ NrmAbsent /\ FxAbsent /\ BldAbsent /\ HeapAbsent

\* n.plus_f32(a).mul_f32(b)
WrapPlusMul ==
    /\ num.order = None
    /\ num' = [num EXCEPT
                  !.order = Some("plus_mul"),
                  !.number = Some(Number_mul_f32(
                                      Number_plus_f32(num.base, num.a), num.b))]
    /\ UNCHANGED <<oscVars, playerVars, iterVars, smpVars, nrm, fx, fx_out,
                   bld, num_out, twin, heapVars>>

\* n.mul_f32(b).plus_f32(a)
WrapMulPlus ==
    /\ num.order = None
    /\ num' = [num EXCEPT
                  !.order = Some("mul_plus"),
                  !.number = Some(Number_plus_f32(
                                      Number_mul_f32(num.base, num.b), num.a))]
    /\ UNCHANGED <<oscVars, playerVars, iterVars, smpVars, nrm, fx, fx_out,
                   bld, num_out, twin, heapVars>>

\* the value of what drives a Number, before its scale and offset
Raw(n) == Number_next_value([n EXCEPT !.plus = 0, !.mul = Q], 0).value

\* next_value on the Number built, and on a copy of the Number it was built
\* from, which shows the value v that one has at the call
WrapNextValue ==
    /\ num.order # None
    /\ num_out.calls < MaxValueCalls
    /\ \E r \in {<<Number_next_value(num.base, 0),
                   Number_next_value(num.number[1], 0)>>} :
          /\ num' = [num EXCEPT !.base = r[1].self,
                                !.number = Some(r[2].self)]
          /\ num_out' = [calls |-> num_out.calls + 1,
                         raw   |-> Some(Raw(num.base)),
                         base  |-> Some(r[1].value),
                         value |-> Some(r[2].value)]
    /\ UNCHANGED <<oscVars, playerVars, iterVars, smpVars, nrm, fx, fx_out,
                   bld, twin, heapVars>>

WrapNext == WrapPlusMul \/ WrapMulPlus \/ WrapNextValue

SpecWrap == WrapInit /\ [][WrapNext]_vars

\* what drives a Number: its LFO, or its value when it is a constant
Underlying(n) == IF n.kind = "Oscillator" THEN n.oscillator ELSE n.value

\* C25 as stated: plus_f32 and mul_f32 leave what drives the Number as it
\* was, and the Number they build evaluates as the wrappers applied in
\* order: with v the value of n at the call, n.plus_f32(a).mul_f32(b) gives
\* b * (v + a) and n.mul_f32(b).plus_f32(a) gives b * v + a.
C25_WrappersCompose ==
    /\ num.order # None =>
          Underlying(num.number[1]) = Underlying(num.base)
    /\ num_out.calls >= 1 /\ num.order = Some("plus_mul") =>
          num_out.value[1] = FMul(num.b, num_out.base[1] + num.a)
    /\ num_out.calls >= 1 /\ num.order = Some("mul_plus") =>
          num_out.value[1] = FMul(num.b, num_out.base[1]) + num.a

\* C25: plus_f32 and mul_f32 leave what drives the Number as it was;
\* plus_f32 adds to the one offset of the Number and mul_f32 multiplies its
\* one scale, so applied in either order to a Number of scale s and offset
\* p they build the Number of scale s * b and offset p + a, which evaluates
\* to (s * b) * raw + (p + a), raw being the value of what drives it; for
\* a Number without offset that is b * v + a.
C25_OffsetAndScale ==
    /\ num.order # None =>
          /\ Underlying(num.number[1]) = Underlying(num.base)
          /\ num.number[1].mul = FMul(num.base.mul, num.b)
          /\ num.number[1].plus = num.base.plus + num.a
    /\ num_out.calls >= 1 =>
          /\ num_out.value[1]
                = FMul(FMul(num.base.mul, num.b), num_out.raw[1])
                  + (num.base.plus + num.a)
          /\ num.base.plus = 0 =>
                num_out.value[1] = FMul(num.b, num_out.base[1]) + num.a

\* a value driven by an LFO was given an offset and then a scale, and
\* its value is not the scaled sum
C25_Witness ==
    /\ num_out.calls >= 2
    /\ num.order = Some("plus_mul")
    /\ num.base.kind = "Oscillator"
    /\ num.a # 0 /\ num.b # Q
    /\ num_out.value[1] # FMul(num.b, num_out.base[1] + num.a)

(***************************************************************************)
(* lfo.rs: the PinkNoise arm of WaveFunction::next_value.  A PinkNoise is  *)
(* [kind |-> "PinkNoise", amplitude, generators, call_count]; generator i  *)
(* of the source is generators[i + 1] here.  draws[i + 1] is what          *)
(* rand::random_range gives should generator i be refreshed in the call.   *)
(***************************************************************************)
WaveFunction_pink_noise(amplitude, num_generators) ==
    [kind       |-> "PinkNoise",
     amplitude  |-> amplitude,
     generators |-> [i \in 1..num_generators |-> 0],
     call_count |-> 0]

\* a variant that counts the call before it refreshes the generators
WaveFunction_PinkNoise_next_value_CountsFirst(self, draws) ==
    LET n == Len(self.generators)
        c == IF self.call_count >= 2 ^ n THEN 0 ELSE self.call_count
        generators == [i \in 1..n |->
                         IF (c + 1) % (2 ^ (i - 1)) = 0
                         THEN draws[i] ELSE self.generators[i]]
    IN  With(Number_next_value(self.amplitude, 0),
             LAMBDA amp :
                [self  |-> [self EXCEPT !.amplitude = amp.self,
                                        !.generators = generators,
                                        !.call_count = c + 1],
                 value |-> FMul(amp.value,
                                FMul(SumSeq(generators),
                                     FDiv(Q, FSqrt(3 * Q))))])

WaveFunction_PinkNoise_next_value(self, draws) ==
    LET n == Len(self.generators)
        c == IF self.call_count >= 2 ^ n THEN 0 ELSE self.call_count
        generators == [i \in 1..n |->
                         IF c % (2 ^ (i - 1)) = 0
                         THEN draws[i] ELSE self.generators[i]]
    IN  With(Number_next_value(self.amplitude, 0),
             LAMBDA amp :
                [self  |-> [self EXCEPT !.amplitude = amp.self,
                                        !.generators = generators,
                                        !.call_count = c + 1],
                 value |-> FMul(amp.value,
                                FMul(SumSeq(generators),
                                     FDiv(Q, FSqrt(3 * Q))))])

(***************************************************************************)
(* A PinkNoise of up to MaxGenerators generators, called again and again   *)
(* with every draw of the random source.  num is the waveform; num_out     *)
(* keeps the draws of the last call and the sample it returned.            *)
(***************************************************************************)
MaxGenerators == 3

PinkAmplitudes == {Number_number(Q), Number_number(Frac(1, 2))}

\* the draws of the random source in these runs: its two extremes
PinkDraws == {-Q, Q}

PinkInit ==
    /\ \E a \in PinkAmplitudes, n \in 0..MaxGenerators :
          num = WaveFunction_pink_noise(a, n)
    /\ num_out = [draws |-> None, value |-> None]
    /\ panicked = FALSE
    /\ twin = Absent
    /\ PlayerAbsent /\ OscAbsent /\ IterAbsent /\ SmpAbsent
    /\ NrmAbsent /\ FxAbsent /\ BldAbsent /\ HeapAbsent

PinkNextValue ==
    /\ \E draws \in [1..Len(num.generators) -> PinkDraws] :
          \E r \in {WaveFunction_PinkNoise_next_value(num, draws)} :
             /\ num' = r.self
             /\ num_out' = [draws |-> Some(draws), value |-> Some(r.value)]
    /\ UNCHANGED <<oscVars, playerVars, iterVars, smpVars, nrm, fx, fx_out,
                   bld, twin, heapVars>>

PinkNext == PinkNextValue

SpecPink == PinkInit /\ [][PinkNext]_vars

\* C26: in a PinkNoise of N generators, a call refreshes generator i (takes
\* a new draw for it) exactly when the call counter is a multiple of 2^i,
\* and leaves every other generator as it was; the counter stays within
\* 0..2^N, goes up by one with each call, and a call that finds it at 2^N
\* starts again from 0.
C26_Step ==
    LET n == Len(num.generators)
    IN  /\ Len(num'.generators) = n
        /\ \A i \in 0..(n - 1) :
              IF num.call_count % (2 ^ i) = 0
              THEN num'.generators[i + 1] = num_out'.draws[1][i + 1]
              ELSE num'.generators[i + 1] = num.generators[i + 1]
        /\ num.call_count \in 0..(2 ^ n)
        /\ num'.call_count \in 0..(2 ^ n)
        /\ num'.call_count
              = IF num.call_count = 2 ^ n THEN 1 ELSE num.call_count + 1

C26_VossMcCartney == [][C26_Step]_vars

\* the counter of a PinkNoise of MaxGenerators generators has reached
\* 2^N, and the last call left its slowest generator other than its draw
C26_Witness ==
    /\ Len(num.generators) = MaxGenerators
    /\ num.call_count = 2 ^ MaxGenerators
    /\ num_out.draws # None
    /\ num.generators[MaxGenerators] # num_out.draws[1][MaxGenerators]
    /\ num.generators[1] = num_out.draws[1][1]

(***************************************************************************)
(* Oscillators whose envelopes have an attack, a decay, both or neither,   *)
(* pressed and released, asked for one grain after another.                *)
(***************************************************************************)
EnvelopeADSRs ==
    { ADSR_new(a, d, s, r) :
        a \in {0, Ticks(5)}, d \in {0, Ticks(4)},
        s \in {0, Frac(1, 2), Q}, r \in {Ticks(3), Ticks(4)} }

EnvelopeInputs ==
    { << OscillatorInputAtTime(Press(Frac(3, 10)), 0) >>,
      << OscillatorInputAtTime(Press(Frac(3, 10)), 0),
         OscillatorInputAtTime(Release, Ticks(SAMPLES_PER_GRAIN)) >>,
      << OscillatorInputAtTime(Press(Frac(7, 10)), Ticks(1)),
         OscillatorInputAtTime(Release, Ticks(3 * SAMPLES_PER_GRAIN)) >> }

EnvelopeInit ==
    /\ \E k \in {"Sine", "Sawtooth"}, a \in EnvelopeADSRs,
          l \in EnvelopeInputs,
          e \in {<<>>, << Volume(Number_number(Frac(1, 2))) >>} :
          osc = OscillatorBuilder_build(
                    Wave(k, Number_number(Frac(1, 2))), e,
                    OscillatorInputIterator_new(l, None), Some(a))
    /\ osc_grain = <<>>
    /\ after_inputs = osc
    /\ handled = <<>>
    /\ panicked = FALSE
    /\ PlayerAbsent /\ IterAbsent /\ SmpAbsent /\ AuxAbsent

SpecEnvelope == EnvelopeInit /\ [][OscNext]_vars

\* the grain of a next_grain call as its effects leave it, before the
\* envelope
BeforeEnvelope(self) ==
    LET rnd == Repeat(0, SAMPLES_PER_GRAIN)
        u   == Oscillator_update_inputs(self)
        g   == Oscillator_fill_from(u.self, Repeat(0, SAMPLES_PER_GRAIN), 1, rnd)
    IN  Oscillator_effects_from(g.self, g.grain, <<>>, 1, rnd).grain

\* the gain of the envelope t seconds into Playing
PlayingGain(adsr, t) ==
    IF t < adsr.attack_duration
    THEN FDiv(t, adsr.attack_duration)
    ELSE IF t < adsr.attack_duration + adsr.decay_duration
    THEN Q - FMul(Q - adsr.sustain_amplitude_multiplier,
                  FDiv(t - adsr.attack_duration, adsr.decay_duration))
    ELSE adsr.sustain_amplitude_multiplier

\* the gain of the envelope r seconds into Releasing, r <= release_duration
ReleasingGain(adsr, r) ==
    FMul(adsr.sustain_amplitude_multiplier, Q - FDiv(r, adsr.release_duration))

\* C27: the grain a next_grain call returns is the grain its effects left,
\* times the gain of the envelope at the time the grain ends.  Playing,
\* t seconds after the press, the gain is t / attack for t < attack,
\* 1 - (1 - sustain) * (t - attack) / decay for attack <= t < attack +
\* decay, and sustain from then on; Releasing, r <= release seconds after
\* the release, it is sustain * (1 - r / release).  An attack or a decay of
\* zero length leaves its segment out, and nothing is divided by zero.
C27_Step ==
    Stepped =>
       LET state == after_inputs'.state
           t     == osc'.secs_since_start - state.started_at
           grain == BeforeEnvelope(osc)
       IN  /\ state.kind = "Play" =>
                 /\ osc_grain' = Scale(grain, PlayingGain(osc.adsr, t))
                 /\ osc.adsr.attack_duration = 0 /\ t < osc.adsr.decay_duration
                       => PlayingGain(osc.adsr, t)
                             = Q - FMul(Q - osc.adsr.sustain_amplitude_multiplier,
                                        FDiv(t, osc.adsr.decay_duration))
                 /\ osc.adsr.decay_duration = 0 /\ t >= osc.adsr.attack_duration
                       => PlayingGain(osc.adsr, t)
                             = osc.adsr.sustain_amplitude_multiplier
           /\ state.kind = "Release" /\ t <= osc.adsr.release_duration =>
                 osc_grain' = Scale(grain, ReleasingGain(osc.adsr, t))

C27_EnvelopeGain == [][C27_Step]_vars

\* an oscillator without attack is in its decay, and its grain sounds
C27_Witness ==
    /\ osc.state.kind = "Play"
    /\ osc.adsr.attack_duration = 0
    /\ osc.adsr.decay_duration > 0
    /\ osc.secs_since_start - osc.state.started_at < osc.adsr.decay_duration
    /\ osc.adsr.sustain_amplitude_multiplier = Frac(1, 2)
    /\ osc_grain # <<>>
    /\ ~Silent(osc_grain)

(***************************************************************************)
(* effects.rs: TapeDelays of several read delays, without wow and flutter, *)
(* fed one non-silent sample after another.  At SAMPLE_RATE the delays are *)
(* 2, 2.4, 3 and 4 samples long.                                           *)
(***************************************************************************)
MaxFillCalls == 6

FillDelays == {Frac(1, 2), Frac(6, 10), Frac(3, 4), Q}

FillInputs == {-Q, Frac(1, 2)}

FillInit ==
    /\ \E d \in FillDelays, m \in {Frac(1, 2), Q}, f \in {0, Frac(1, 2)} :
          fx = TapeDelay_new(d, Number_number(m), Number_number(f),
                             0, Frac(1, 2), 0, Q)
    /\ fx_out = [calls |-> 0, value |-> None, delay_sample |-> 0,
                 indexed |-> FALSE, heard |-> FALSE]
    /\ panicked = FALSE
    /\ PlayerAbsent /\ OscAbsent /\ IterAbsent /\ SmpAbsent
    /\ NrmAbsent /\ BldAbsent /\ ValAbsent /\ HeapAbsent

\* process_sample of the TapeDelay; heard tells whether a call so far had a
\* delayed sample other than 0.0
FillProcess(x) ==
    /\ ~panicked
    /\ fx_out.calls < MaxFillCalls
    /\ \E r \in {TapeDelay_process_sample(fx, x, 0)} :
          /\ panicked' = r.panic
          /\ fx' = IF r.panic THEN fx ELSE r.self
          /\ fx_out' = [calls |-> fx_out.calls + 1,
                        value |-> IF r.panic THEN None ELSE Some(r.value),
                        delay_sample |-> r.delay_sample,
                        indexed |-> r.indexed,
                        heard |-> fx_out.heard \/ r.delay_sample # 0]
    /\ UNCHANGED <<osc, osc_grain, after_inputs, handled, playerVars,
                   iterVars, smpVars, nrm, bld, valVars, heapVars>>

FillNext == \E x \in FillInputs : FillProcess(x)

SpecFill == FillInit /\ [][FillNext]_vars

\* C28: whatever the positive read delay, a process_sample call made after
\* read_delay seconds of samples have been processed reads its delayed
\* sample from the buffer, and a TapeDelay fed non-silent samples has by
\* then had a delayed sample that is not silence.
C28_DelayFills ==
    /\ fx_out.calls >= 1 /\ Ticks(fx_out.calls - 1) >= fx.read_delay =>
          fx_out.indexed /\ ~panicked
    /\ fx_out.calls = MaxFillCalls => fx_out.heard

\* the same for the read delays that are a whole number of samples
C28_WholeDelaysFill ==
    AsUsize(fx.read_delay * SAMPLE_RATE) * Q = fx.read_delay * SAMPLE_RATE
       => C28_DelayFills

(***************************************************************************)
(* effects.rs: a Saturation processing one sample after another, for as    *)
(* long as it does not fail.  fx_out keeps the drive before the last call  *)
(* and the target the call evaluated.                                      *)
(***************************************************************************)
\* constant targets above and below the drive the Saturation starts from
\* (a third of the target), and a target that is an LFO
SlewDrives ==
    { Number_number(v) : v \in {2 * Q, 0, -Frac(6, 10)} }
    \cup { Number_sine_around(Q, Frac(1, 2), Frac(1, 2)) }

\* slew rates: negative, zero, and 0.1 and 0.5 a sample at SAMPLE_RATE
SlewRates == {-Frac(4, 10), 0, Frac(4, 10), 2 * Q}

SlewInputs == {-Q, Frac(1, 2)}

SlewInit ==
    /\ \E d \in SlewDrives, r \in SlewRates :
          fx = Saturation_new(d, Number_number(Frac(7, 10)), r, 0)
    /\ fx_out = [calls |-> 0, before |-> None, target |-> None,
                 value |-> None]
    /\ panicked = FALSE
    /\ PlayerAbsent /\ OscAbsent /\ IterAbsent /\ SmpAbsent
    /\ NrmAbsent /\ BldAbsent /\ ValAbsent /\ HeapAbsent

\* process_sample of the Saturation
SlewProcess(x) ==
    /\ ~panicked
    /\ \E r \in {Saturation_process_sample(fx, x, 0)} :
          /\ panicked' = r.panic
          /\ fx' = IF r.panic THEN fx ELSE r.self
          /\ fx_out' = [calls  |-> Min(fx_out.calls + 1, 2),
                        before |-> Some(fx.actual_drive),
                        target |-> Some(Number_next_value(fx.target_drive,
                                                          0).value),
                        value  |-> IF r.panic THEN None ELSE Some(r.value)]
    /\ UNCHANGED <<osc, osc_grain, after_inputs, handled, playerVars,
                   iterVars, smpVars, nrm, bld, valVars, heapVars>>

SlewNext == \E x \in SlewInputs : SlewProcess(x)

\* the owner of the Saturation goes on processing samples
SpecSlew == SlewInit /\ [][SlewNext]_vars /\ WF_vars(SlewNext)

\* what a processed sample did to the drive: it changed by at most
\* slew_rate / SAMPLE_RATE, it got nearer to the target the call evaluated
\* unless it was there, and it did not pass it
SlewStep ==
    ~panicked' /\ fx_out'.calls >= 1 =>
       LET target == fx_out'.target[1]
       IN  /\ SAMPLE_RATE * Abs(fx'.actual_drive - fx.actual_drive)
                 <= fx.slew_rate
           /\ fx.actual_drive < target =>
                 fx.actual_drive < fx'.actual_drive
                 /\ fx'.actual_drive <= target
           /\ fx.actual_drive > target =>
                 fx.actual_drive > fx'.actual_drive
                 /\ fx'.actual_drive >= target
           /\ fx.actual_drive = target => fx'.actual_drive = target

\* the drive is at its constant target
Settled ==
    fx.target_drive.kind = "Number" =>
       fx.actual_drive = Number_next_value(fx.target_drive, 0).value

\* C29 as stated: whatever the slew rate, every processed sample changes
\* actual_drive by at most slew_rate / SAMPLE_RATE and toward the target,
\* and with a constant target actual_drive comes to equal the target after
\* finitely many samples and stays equal to it.
C29_SlewsAtAnyRate == [][SlewStep]_vars /\ <>[]Settled

\* C29: with a slew rate above zero, every processed sample changes
\* actual_drive by at most slew_rate / SAMPLE_RATE and toward the target,
\* and with a constant target actual_drive comes to equal the target after
\* finitely many samples and stays equal to it.
C29_SlewsToTarget ==
    /\ [][fx.slew_rate > 0 => SlewStep]_vars
    /\ <>[](fx.slew_rate > 0 => Settled)

\* a drive that rose to its constant target in steps, the last one shorter
\* than the others
C29_Witness ==
    /\ fx.kind = "Saturation"
    /\ fx.target_drive.kind = "Number"
    /\ fx_out.calls >= 2
    /\ fx.actual_drive = fx_out.target[1]
    /\ fx_out.before[1] < fx.actual_drive
    /\ SAMPLE_RATE * (fx.actual_drive - fx_out.before[1]) < fx.slew_rate

(***************************************************************************)
(* The owners of Numbers processing their samples: a Volume and an         *)
(* Oscillator a grain at a time (apply, next_grain), a Filter, a           *)
(* Saturation and a TapeDelay a sample at a time (process_sample).  Every  *)
(* parameter is driven by an LFO, whose phase shows how often it was       *)
(* advanced.  fx is the owner, an Oscillator as [kind |-> "Oscillator",    *)
(* node]; fx_out keeps the owner as built and the samples it processed.    *)
(***************************************************************************)
MaxTickSamples == 6

\* a parameter that stays within [0.25, 0.75]
TickLfo == Number_sine_around(Frac(1, 2), Frac(1, 4), Frac(1, 2))

TickOscillators ==
    { [kind |-> "Oscillator",
       node |-> OscillatorBuilder_build(
                    [kind |-> "Sine", frequency |-> TickLfo,
                     amplitude |-> TickLfo, phase |-> TickLfo],
                    <<>>,
                    OscillatorInputIterator_new(
                        << OscillatorInputAtTime(PressSame, t) >>, None),
                    None)] :
        t \in {0, Ticks(SAMPLES_PER_GRAIN)} }

TickOwners ==
    { Volume(TickLfo),
      Saturation_new(TickLfo, TickLfo, 2 * Q, 0),
      TapeDelay_new(Q, TickLfo, TickLfo, Frac(1, 4), Frac(1, 2), 0, Q) }
    \cup { Filter_new("LowPass", TickLfo, TickLfo, n) : n \in {1, 2, 4} }
    \cup TickOscillators

TickInputs == {-Q, Frac(1, 2)}

\* the Numbers an owner holds as its parameters
Params(owner) ==
    CASE owner.kind = "Volume" -> << owner.number >>
      [] owner.kind = "Filter" ->
            << owner.cutoff_frequency, owner.resonance >>
      [] owner.kind = "Saturation" -> << owner.target_drive, owner.mix >>
      [] owner.kind = "TapeDelay" ->
            << owner.feedback, owner.mix, owner.wow_oscillator,
               owner.flutter_oscillator >>
      [] owner.kind = "Oscillator" ->
            << owner.node.wave_function.frequency,
               owner.node.wave_function.amplitude,
               owner.node.wave_function.phase >>

TickInit ==
    /\ fx \in TickOwners
    /\ fx_out = [samples |-> 0, built |-> fx]
    /\ panicked = FALSE
    /\ PlayerAbsent /\ OscAbsent /\ IterAbsent /\ SmpAbsent
    /\ NrmAbsent /\ BldAbsent /\ ValAbsent /\ HeapAbsent

\* process_sample of a Filter, a Saturation or a TapeDelay
TickSample(x) ==
    /\ ~panicked
    /\ fx.kind \in {"Filter", "Saturation", "TapeDelay"}
    /\ fx_out.samples < MaxTickSamples
    /\ \E r \in {CASE fx.kind = "Filter" -> Filter_process_sample(fx, x, 0)
                   [] fx.kind = "Saturation" ->
                         Saturation_process_sample(fx, x, 0)
                   [] fx.kind = "TapeDelay" ->
                         TapeDelay_process_sample(fx, x, 0)} :
          /\ panicked' = r.panic
          /\ fx' = IF r.panic THEN fx ELSE r.self
          /\ fx_out' = [fx_out EXCEPT !.samples = @ + 1]
    /\ UNCHANGED <<osc, osc_grain, after_inputs, handled, playerVars,
                   iterVars, smpVars, nrm, bld, valVars, heapVars>>

\* apply of a Volume to a grain
TickApply(grain) ==
    /\ ~panicked
    /\ fx.kind = "Volume"
    /\ fx_out.samples < MaxTickSamples
    /\ \E r \in {Volume_apply(fx, [grain |-> grain,
                                   time_since_start_of_beat |-> 0],
                              Repeat(0, SAMPLES_PER_GRAIN))} :
          /\ fx' = r.self
          /\ fx_out' = [fx_out EXCEPT !.samples = @ + SAMPLES_PER_GRAIN]
    /\ UNCHANGED <<oscVars, playerVars, iterVars, smpVars, nrm, bld,
                   valVars, heapVars>>

\* next_grain of an Oscillator
TickNextGrain ==
    /\ ~panicked
    /\ fx.kind = "Oscillator"
    /\ fx_out.samples < MaxTickSamples
    /\ \E r \in {Oscillator_next_grain(fx.node,
                                       Repeat(0, SAMPLES_PER_GRAIN))} :
          /\ fx' = [fx EXCEPT !.node = r.self]
          /\ fx_out' = [fx_out EXCEPT !.samples = @ + SAMPLES_PER_GRAIN]
    /\ UNCHANGED <<oscVars, playerVars, iterVars, smpVars, nrm, bld,
                   valVars, heapVars>>

TickNext ==
    \/ \E x \in TickInputs : TickSample(x)
    \/ \E grain \in [1..SAMPLES_PER_GRAIN -> TickInputs] : TickApply(grain)
    \/ TickNextGrain

SpecTick == TickInit /\ [][TickNext]_vars

\* the Number after k calls of next_value
RECURSIVE Advance(_, _)
Advance(number, k) ==
    IF k = 0 THEN number
    ELSE Advance(Number_next_value(number, 0).self, k - 1)

\* parameter i of the owner has been advanced once for every sample the
\* owner has processed
InStep(i) ==
    Params(fx)[i] = Advance(Params(fx_out.built)[i], fx_out.samples)

\* C30: every Number an owner holds as a parameter has been advanced
\* exactly once for each sample the owner has processed: the frequency,
\* amplitude and phase of an Oscillator in every state, the cutoff and the
\* resonance of a Filter at every pole count, the Number of a Volume, the
\* drive and the mix of a Saturation, and the feedback, mix, wow and flutter
\* of a TapeDelay from its first sample on.
C30_AdvancedOncePerSample ==
    ~panicked => \A i \in DOMAIN Params(fx) : InStep(i)

\* the same for the parameters that are evaluated in every sample: those of
\* a Volume, of a Saturation, of a four-pole Filter, the cutoff of every
\* Filter, the feedback and the mix of a TapeDelay, and those of an
\* Oscillator that has played since its first grain
C30_WhereEvaluated ==
    ~panicked =>
       /\ fx.kind \in {"Volume", "Saturation"} => C30_AdvancedOncePerSample
       /\ fx.kind = "Filter" =>
             /\ InStep(1)
             /\ Len(fx.poles) = 4 => InStep(2)
       /\ fx.kind = "TapeDelay" => InStep(1) /\ InStep(2)
       /\ fx.kind = "Oscillator"
             /\ fx_out.built.node.inputs.inputs[1].time = 0
             => C30_AdvancedOncePerSample

(***************************************************************************)
(* state.rs: History, Effect and the samples of a Pattern.  An Effect is   *)
(* [kind |-> "Amplify", factor], [kind |-> "Crunchy", decay] or            *)
(* [kind |-> "PitchShift", semitones].  Index i of a Vec or VecDeque of    *)
(* the source is element i + 1 here.                                       *)
(***************************************************************************)
Amplify(factor) == [kind |-> "Amplify", factor |-> factor]

Crunchy(decay) == [kind |-> "Crunchy", decay |-> decay]

PitchShift(semitones) == [kind |-> "PitchShift", semitones |-> semitones]

\* pop_front, push_back
History_push(self, sample_in) ==
    [self EXCEPT !.samples = IF @ = <<>> THEN << sample_in >>
                             ELSE Append(Tail(@), sample_in)]

\* self.samples.iter().take(self.samples_per_grain)
History_last_grain(self) ==
    SubSeq(self.samples, 1, Min(self.samples_per_grain, Len(self.samples)))

\* f32::powi
RECURSIVE FPowi(_, _)
FPowi(x, n) == IF n = 0 THEN Q ELSE FMul(x, FPowi(x, n - 1))

\* the sum of sample * safe_decay.powi(i + 1) over last_grain.skip(1)
RECURSIVE crunchy_contribution_from(_, _, _)
crunchy_contribution_from(last_grain, safe_decay, k) ==
    IF k > Len(last_grain) THEN 0
    ELSE FMul(last_grain[k], FPowi(safe_decay, k - 1))
         + crunchy_contribution_from(last_grain, safe_decay, k + 1)

\* Effect::apply of state.rs: PitchShift is todo!()
state_Effect_apply(self, history) ==
    LET last_grain == History_last_grain(history)
    IN  CASE self.kind = "Amplify" ->
               [value |-> Clamp(FMul(IF last_grain = <<>> THEN 0
                                     ELSE last_grain[Len(last_grain)],
                                     self.factor), -Q, Q),
                panic |-> FALSE]
          [] self.kind = "Crunchy" ->
               LET safe_decay == Clamp(self.decay, Frac(1, 10), Frac(95, 100))
               IN  [value |->
                       Clamp((IF last_grain = <<>> THEN 0 ELSE last_grain[1])
                             + FMul(FMul(crunchy_contribution_from(
                                             last_grain, safe_decay, 2),
                                         safe_decay), Frac(1, 2)), -Q, Q),
                    panic |-> FALSE]
          [] self.kind = "PitchShift" -> [value |-> 0, panic |-> TRUE]

\* for effect in &self.effects { processed_sample = effect.apply(&self.history); }
RECURSIVE Pattern_effects_from(_, _, _)
Pattern_effects_from(self, processed_sample, i) ==
    IF i > Len(self.effects)
    THEN [value |-> processed_sample, panic |-> FALSE]
    ELSE With(state_Effect_apply(self.effects[i], self.history), LAMBDA r :
              IF r.panic THEN [value |-> 0, panic |-> TRUE]
              ELSE Pattern_effects_from(self, r.value, i + 1))

\* the sample a Pattern reads at pattern_position
Pattern_raw_sample(self, pattern_position) ==
    LET beat_position == pattern_position \div self.samples_per_beat
        position_in_beat ==
            pattern_position - beat_position * self.samples_per_beat
        sample_index ==
            (position_in_beat * Len(self.sample)) \div self.samples_per_beat
    IN  IF beat_position < Len(self.trigger_map)
           /\ self.trigger_map[beat_position + 1]
        THEN IF Len(self.sample) > 0 /\ sample_index < Len(self.sample)
             THEN self.sample[sample_index + 1]
             ELSE 0
        ELSE 0

\* a variant that plays the sample in every beat
Pattern_get_sample_at_position_NoGate(self, sample_position) ==
    IF self.samples_per_pattern = 0
    THEN [self |-> self, value |-> 0, raw |-> 0, panic |-> TRUE]
    ELSE With(Pattern_raw_sample(
                  [self EXCEPT !.trigger_map = [b \in DOMAIN @ |-> TRUE]],
                  sample_position % self.samples_per_pattern),
              LAMBDA raw :
         With([self EXCEPT !.history = History_push(@, raw)], LAMBDA s :
         With(Pattern_effects_from(s, raw, 1), LAMBDA e :
              [self |-> s, value |-> e.value, raw |-> raw,
               panic |-> e.panic])))

\* returns the pattern, the sample, and beside them the sample read before
\* the effects; `%` by a samples_per_pattern of 0 panics
Pattern_get_sample_at_position(self, sample_position) ==
    IF self.samples_per_pattern = 0
    THEN [self |-> self, value |-> 0, raw |-> 0, panic |-> TRUE]
    ELSE With(Pattern_raw_sample(
                  self, sample_position % self.samples_per_pattern),
              LAMBDA raw :
         With([self EXCEPT !.history = History_push(@, raw)], LAMBDA s :
         With(Pattern_effects_from(s, raw, 1), LAMBDA e :
              [self |-> s, value |-> e.value, raw |-> raw,
               panic |-> e.panic])))

\* the counter is incremented before the sample is read
Pattern_next_sample(self) ==
    Pattern_get_sample_at_position(
        [self EXCEPT !.sample_counter = @ + 1], self.sample_counter)

(***************************************************************************)
(* Patterns of one to three beats, of 4 and of 2 samples a beat, asked for *)
(* one sample after another.  fx is the Pattern; fx_out keeps the samples  *)
(* read before the effects and the samples returned.                       *)
(***************************************************************************)
MaxPosition == 14

\* 60 and 120 beats a minute, at a volume that makes 0.1 of the clip the
\* full scale of the pattern
PatternConfigs ==
    { PatternConfig_new(bpm, Frac(1, 10), n) :
        bpm \in {60, 120}, n \in 1..3 }

\* a clip shorter than a beat, and one longer than a beat
PatternClips ==
    { << Frac(1, 10), -Frac(1, 10) >>,
      << Frac(1, 10), -Frac(1, 10), 0, Frac(1, 10), Frac(2, 10) >> }

\* beats listed once, twice, out of order, and entries of 0 and beyond the
\* pattern
TriggerBeats ==
    { <<>>, << 1 >>, << 2 >>, << 3, 1 >>, << 0, 2 >>, << 4, 1, 1 >> }

PatInit ==
    /\ \E c \in PatternConfigs, s \in PatternClips, t \in TriggerBeats :
          fx = Pattern_new(c, s, t, <<>>)
    /\ fx_out = [raws |-> <<>>, values |-> <<>>]
    /\ panicked = FALSE
    /\ PlayerAbsent /\ OscAbsent /\ IterAbsent /\ SmpAbsent
    /\ NrmAbsent /\ BldAbsent /\ ValAbsent /\ HeapAbsent

PatNextSample ==
    /\ ~panicked
    /\ fx.sample_counter < MaxPosition
    /\ \E r \in {Pattern_next_sample(fx)} :
          /\ panicked' = r.panic
          /\ fx' = IF r.panic THEN fx ELSE r.self
          /\ fx_out' = IF r.panic THEN fx_out
                       ELSE [raws   |-> Append(fx_out.raws, r.raw),
                             values |-> Append(fx_out.values, r.value)]
    /\ UNCHANGED <<osc, osc_grain, after_inputs, handled, playerVars,
                   iterVars, smpVars, nrm, bld, valVars, heapVars>>

PatNext == PatNextSample

SpecPattern == PatInit /\ [][PatNext]_vars

\* beat b is listed in trigger_beats
Listed(pattern, b) ==
    \E k \in DOMAIN pattern.trigger_beats : pattern.trigger_beats[k] = b

\* the beat of the pattern that global position p falls in, counted from 1
BeatOf(pattern, p) ==
    ((p % pattern.samples_per_pattern) \div pattern.samples_per_beat) + 1

\* C31: every next_sample call of a Pattern reads the next position, from
\* 0 on; the sample read at position p is other than 0.0 only if the beat
\* floor((p mod samples_per_pattern) / samples_per_beat) + 1 is listed in
\* trigger_beats, the entries of 0 and above length_beats matching no beat
\* and doing no harm; and the samples read repeat with the period
\* samples_per_pattern.
C31_GatedByBeat ==
    /\ ~panicked
    /\ Len(fx_out.raws) = fx.sample_counter
    /\ \A i \in DOMAIN fx_out.raws :
          /\ BeatOf(fx, i - 1) \in 1..fx.config.length_beats
          /\ ~Listed(fx, BeatOf(fx, i - 1)) => fx_out.raws[i] = 0
          /\ i > fx.samples_per_pattern =>
                fx_out.raws[i] = fx_out.raws[i - fx.samples_per_pattern]

\* a pattern with an entry beyond its length is in its second round: it has
\* read a sample that sounds and a beat of silence
C31_Witness ==
    /\ Len(fx_out.raws) > fx.samples_per_pattern
    /\ fx_out.raws[Len(fx_out.raws)] # 0
    /\ \E i \in DOMAIN fx_out.raws :
          i > fx.samples_per_pattern /\ ~Listed(fx, BeatOf(fx, i - 1))
    /\ \E k \in DOMAIN fx.trigger_beats :
          fx.trigger_beats[k] > fx.config.length_beats

(***************************************************************************)
(* sample.rs: compress on clips longer than the target length, at the      *)
(* speed normalize_sample_length gives it, and normalize_sample_length on  *)
(* the same clips.  nrm keeps what the two returned.                       *)
(***************************************************************************)
MaxCompressLen == 8

CompressClips ==
    UNION { { Repeat(Frac(1, 2), l),
              [j \in 1..l |-> IF j % 2 = 1 THEN Q ELSE -Frac(1, 2)] } :
            l \in 2..MaxCompressLen }

\* let speed = target_length as f32 / samples.len() as f32;
SpeedFor(samples, target_length) == FDiv(target_length * Q, Len(samples) * Q)

CompressInit ==
    /\ \E c \in CompressClips : \E t \in 1..(Len(c) - 1) :
          nrm = [samples |-> c, target_length |-> t, compressed |-> None,
                 result |-> None]
    /\ panicked = FALSE
    /\ PlayerAbsent /\ OscAbsent /\ IterAbsent /\ SmpAbsent
    /\ FxAbsent /\ BldAbsent /\ ValAbsent /\ HeapAbsent

CompressClip ==
    /\ ~panicked
    /\ nrm.compressed = None
    /\ \E r \in {compress(nrm.samples,
                          SpeedFor(nrm.samples, nrm.target_length))} :
          IF r.panic
          THEN panicked' = TRUE /\ UNCHANGED nrm
          ELSE nrm' = [nrm EXCEPT !.compressed = Some(r.value)]
                 /\ UNCHANGED panicked
    /\ UNCHANGED <<osc, osc_grain, after_inputs, handled, playerVars,
                   iterVars, smpVars, fx, fx_out, bld, valVars, heapVars>>

NormalizeClip ==
    /\ ~panicked
    /\ nrm.result = None
    /\ \E r \in {normalize_sample_length(nrm.samples, nrm.target_length)} :
          IF r.panic
          THEN panicked' = TRUE /\ UNCHANGED nrm
          ELSE nrm' = [nrm EXCEPT !.result = Some(r.value)]
                 /\ UNCHANGED panicked
    /\ UNCHANGED <<osc, osc_grain, after_inputs, handled, playerVars,
                   iterVars, smpVars, fx, fx_out, bld, valVars, heapVars>>

CompressNext == CompressClip \/ NormalizeClip

SpecCompress == CompressInit /\ [][CompressNext]_vars

\* C32: what compress returns for a clip and the speed target / length is
\* within SAMPLES_PER_GRAIN samples of the target length (speed times the
\* length of the clip), so normalize_sample_length has at most one grain to
\* pad or to cut.
C32_ShortensBySpeed ==
    nrm.compressed # None =>
       Abs(Len(nrm.compressed[1]) - nrm.target_length) <= SAMPLES_PER_GRAIN

\* the length compress gives: a grain, and for each further chunk of the
\* clip what a grain has beyond the overlap of speed * SAMPLES_PER_GRAIN
\* samples, less the padding of the last chunk
C32_LengthByOverlap ==
    nrm.compressed # None =>
       LET chunks  == (Len(nrm.samples) + SAMPLES_PER_GRAIN - 1)
                         \div SAMPLES_PER_GRAIN
           overlap == (SpeedFor(nrm.samples, nrm.target_length)
                         * SAMPLES_PER_GRAIN) \div Q
       IN  Len(nrm.compressed[1])
              = Len(nrm.samples) - (chunks - 1) * overlap

(***************************************************************************)
(* update_sample_rate on a Sample, a Pattern and an Oscillator, called     *)
(* once and then again with the same rate, on nodes as built and on nodes  *)
(* that have produced sound.  fx is the node as [kind, node]; fx_out keeps *)
(* the rate and the node after the first and after the second call.        *)
(***************************************************************************)
Pattern_update_sample_rate(self, new_sample_rate) ==
    IF new_sample_rate # self.current_sample_rate
    THEN With(AsUsize(FDiv(60 * Q, self.config.bpm * Q) * new_sample_rate),
              LAMBDA samples_per_beat :
                 [self EXCEPT
                    !.current_sample_rate = new_sample_rate,
                    !.samples_per_beat = samples_per_beat,
                    !.samples_per_pattern =
                        samples_per_beat * self.config.length_beats,
                    !.samples_per_grain =
                        AsUsize(GRAIN_SIZE_SECONDS * new_sample_rate),
                    !.sample =
                        @ \o Repeat(0, Max(0, samples_per_beat - Len(@)))])
    ELSE self

\* update_sample_rate of whatever node it is
Node_update_sample_rate(kind, node, sample_rate) ==
    IF kind = "Pattern"
    THEN [self  |-> Pattern_update_sample_rate(node, sample_rate),
          panic |-> FALSE]
    ELSE Sound_update_sample_rate(kind, node, sample_rate)

MaxRateCalls == 2

\* rates below, at and above the rate the nodes are built for
SampleRates == {2, 4, 6, 8}

RateNodes ==
    { [kind |-> "Sample",
       node |-> Sample_new(c, b, <<SampleInputAtTime(Trigger, 0)>>)] :
        c \in { <<11, 22>>, <<-10, 20, -30, 40, -50>>,
                <<1, 2, 3, 4, 5, 6, 7>> },
        b \in { Q, Frac(1, 2) } }
    \cup
    { [kind |-> "Pattern",
       node |-> Pattern_new(PatternConfig_new(bpm, Frac(1, 10), 2),
                            << Frac(1, 10), -Frac(1, 10) >>, << 1 >>, e)] :
        bpm \in {60, 120}, e \in { <<>>, << Amplify(Frac(1, 2)) >> } }
    \cup
    { [kind |-> "Oscillator",
       node |-> OscillatorBuilder_build(
                    Wave("Sine", Number_number(Frac(1, 2))), <<>>,
                    OscillatorInputIterator_new(
                        <<OscillatorInputAtTime(Press(Frac(3, 10)), 0)>>, None),
                    None)] }

RateInit ==
    /\ fx \in RateNodes
    /\ fx_out = [calls |-> 0, rate |-> None, before |-> None, once |-> None,
                 twice |-> None]
    /\ panicked = FALSE
    /\ PlayerAbsent /\ OscAbsent /\ IterAbsent /\ SmpAbsent
    /\ NrmAbsent /\ BldAbsent /\ ValAbsent /\ HeapAbsent

\* the node produces sound before its rate is set: a grain of a Sample or
\* an Oscillator, a sample of a Pattern
RateAdvance ==
    /\ ~panicked
    /\ fx_out.rate = None
    /\ fx_out.calls < MaxRateCalls
    /\ \E r \in {IF fx.kind = "Pattern" THEN Pattern_next_sample(fx.node)
                 ELSE Twin_next(fx.kind, fx.node, <<>>)} :
          /\ ~r.panic
          /\ fx' = [fx EXCEPT !.node = r.self]
          /\ fx_out' = [fx_out EXCEPT !.calls = @ + 1]
    /\ UNCHANGED <<oscVars, playerVars, iterVars, smpVars, nrm, bld,
                   valVars, heapVars>>

\* update_sample_rate(rate)
RateUpdate(rate) ==
    /\ ~panicked
    /\ fx_out.rate = None
    /\ \E r \in {Node_update_sample_rate(fx.kind, fx.node, rate)} :
          /\ panicked' = r.panic
          /\ fx' = IF r.panic THEN fx ELSE [fx EXCEPT !.node = r.self]
          /\ fx_out' = [fx_out EXCEPT
                           !.rate = Some(rate),
                           !.before = Some(fx.node),
                           !.once = IF r.panic THEN None ELSE Some(r.self)]
    /\ UNCHANGED <<osc, osc_grain, after_inputs, handled, playerVars,
                   iterVars, smpVars, nrm, bld, valVars, heapVars>>

\* update_sample_rate with the same rate again
RateUpdateAgain ==
    /\ ~panicked
    /\ fx_out.once # None
    /\ fx_out.twice = None
    /\ \E r \in {Node_update_sample_rate(fx.kind, fx.node,
                                         fx_out.rate[1])} :
          /\ panicked' = r.panic
          /\ fx' = IF r.panic THEN fx ELSE [fx EXCEPT !.node = r.self]
          /\ fx_out' = [fx_out EXCEPT
                           !.twice = IF r.panic THEN None ELSE Some(r.self)]
    /\ UNCHANGED <<osc, osc_grain, after_inputs, handled, playerVars,
                   iterVars, smpVars, nrm, bld, valVars, heapVars>>

RateNext ==
    \/ RateAdvance
    \/ \E rate \in SampleRates : RateUpdate(rate)
    \/ RateUpdateAgain

SpecRate == RateInit /\ [][RateNext]_vars

PatternEffects ==
    { <<>>,
      << Amplify(2 * Q) >>,
      << Amplify(Frac(1, 2)) >>,
      << Crunchy(Frac(1, 2)) >>,
      << Amplify(Frac(1, 2)), Amplify(Q) >>,
      << Amplify(2 * Q), Amplify(Frac(1, 2)) >>,
      << Crunchy(Frac(1, 2)), Amplify(Frac(1, 2)) >> }

ChainInit ==
    /\ \E bpm \in {60, 120}, n \in 1..2, s \in PatternClips,
          t \in { << 1 >>, << 2 >>, << 1, 2 >> }, e \in PatternEffects :
          fx = Pattern_new(PatternConfig_new(bpm, Frac(1, 10), n), s, t, e)
    /\ fx_out = [raws |-> <<>>, values |-> <<>>]
    /\ panicked = FALSE
    /\ PlayerAbsent /\ OscAbsent /\ IterAbsent /\ SmpAbsent
    /\ NrmAbsent /\ BldAbsent /\ ValAbsent /\ HeapAbsent

SpecChain == ChainInit /\ [][PatNext]_vars

\* the only effect of the pattern is an Amplify
OnlyAmplify == Len(fx.effects) = 1 /\ fx.effects[1].kind = "Amplify"

\* C34: in a Pattern whose only effect is Amplify(f), every next_sample
\* returns clamp(f * s, -1, 1), s being the sample read in the same call,
\* which is the sample pushed to the History last.
C34_AmplifiesCurrent ==
    OnlyAmplify =>
        \A i \in DOMAIN fx_out.values :
            fx_out.values[i]
                = Clamp(FMul(fx_out.raws[i], fx.effects[1].factor), -Q, Q)

\* what Amplify returns: the amplified sample of samples_per_grain calls
\* before, and 0.0 in the first samples_per_grain calls
C34_AmplifiesDelayed ==
    OnlyAmplify =>
        \A i \in DOMAIN fx_out.values :
            fx_out.values[i]
                = IF i > fx.samples_per_grain
                  THEN Clamp(FMul(fx_out.raws[i - fx.samples_per_grain],
                                  fx.effects[1].factor), -Q, Q)
                  ELSE 0

\* the History as it is in the i-th next_sample call, after the push
HistoryAt(i) ==
    LET all == Repeat(0, Len(fx.history.samples)) \o SubSeq(fx_out.raws, 1, i)
    IN  [fx.history EXCEPT
            !.samples = SubSeq(all, i + 1, Len(all))]

\* the later effects of a list, all Amplify, each applied to the result of
\* the one before it
RECURSIVE ChainFrom(_, _, _)
ChainFrom(effects, previous, k) ==
    IF k > Len(effects) THEN previous
    ELSE ChainFrom(effects,
                   Clamp(FMul(previous, effects[k].factor), -Q, Q), k + 1)

\* C38: in a Pattern with several effects the effects form a chain in the
\* order of insertion: the first works on the History, every later one on
\* the result of the one before it, so that every effect of the list has
\* its part in the sample returned.
C38_EffectsChain ==
    Len(fx.effects) > 1 =>
        \A i \in DOMAIN fx_out.values :
            fx_out.values[i]
                = ChainFrom(fx.effects,
                            state_Effect_apply(fx.effects[1],
                                               HistoryAt(i)).value, 2)

\* what a Pattern with effects returns: the result of its last effect on
\* the History, whatever the effects before it were
C38_LastEffectOnly ==
    Len(fx.effects) > 0 =>
        \A i \in DOMAIN fx_out.values :
            fx_out.values[i]
                = state_Effect_apply(fx.effects[Len(fx.effects)],
                                     HistoryAt(i)).value

\* the place in the queue of the k-th input handled
QueuePlace(k) == ((k - 1) % Len(osc.inputs.inputs)) + 1

\* the inputs are handled in the order of the queue, one pass after the
\* other, a second pass only with a repeat delay, and none before its time
C35_InOrder ==
    /\ \A k \in DOMAIN handled :
          /\ handled[k].input = osc.inputs.inputs[QueuePlace(k)].input
          /\ handled[k].at >= handled[k].time
          /\ k > 1 => handled[k].at > handled[k - 1].at
    /\ osc.inputs.repeat_delay = None =>
          Len(handled) <= Len(osc.inputs.inputs)
    /\ osc.inputs.index = Len(handled) % Len(osc.inputs.inputs)
       \/ /\ osc.inputs.repeat_delay = None
          /\ osc.inputs.index = Len(handled)

\* a next_grain call handles no input or the one next in the queue
C35_Step ==
    \/ handled' = handled
    \/ /\ Len(handled') = Len(handled) + 1
       /\ SubSeq(handled', 1, Len(handled)) = handled
       /\ handled'[Len(handled')].at = osc.secs_since_start

\* C35: over every sequence of next_grain calls of an Oscillator the input
\* events are handled in the order of the queue, each at most once in a
\* pass over the queue, none before secs_since_start has reached its time,
\* and at most one in a next_grain call.
C35_HandledInOrder == [](C35_InOrder) /\ [][C35_Step]_vars

\* a queue of three inputs due at once is in its second pass, and an input
\* was handled later than its time
C35_Witness ==
    /\ Len(osc.inputs.inputs) = 3
    /\ Len(handled) > Len(osc.inputs.inputs)
    /\ \E k \in DOMAIN handled : handled[k].at > handled[k].time

(***************************************************************************)
(* An Oscillator asked for grains and for single samples in any order.     *)
(* fx_out keeps the last next_sample call: the oscillator before and after *)
(* it and the sample returned.                                             *)
(***************************************************************************)
MaxSampleCalls == 2

SampleCallInit ==
    /\ \E w \in WaveFunctions, l \in InputLists, d \in {None, Some(0)} :
          osc = OscillatorBuilder_build(
                    w, <<>>, OscillatorInputIterator_new(l, d), None)
    /\ osc_grain = <<>>
    /\ after_inputs = osc
    /\ handled = <<>>
    /\ panicked = FALSE
    /\ PlayerAbsent /\ IterAbsent /\ SmpAbsent /\ AuxAbsent

\* the owner of the oscillator calls next_sample
OscNextSample ==
    /\ ~panicked
    /\ osc.secs_since_start < GrainsTime(MaxGrains)
    /\ IF fx_out = <<>> THEN TRUE ELSE fx_out.calls < MaxSampleCalls
    /\ \E rnd \in IF osc.wave_function.kind = "WhiteNoise"
                  THEN NoiseValues ELSE {0} :
       \E r \in {Oscillator_next_sample(osc, rnd)} :
          /\ osc' = r.self
          /\ fx_out' = [calls  |-> IF fx_out = <<>> THEN 1
                                    ELSE fx_out.calls + 1,
                         before |-> osc, after |-> r.self,
                         value  |-> r.value]
    /\ UNCHANGED <<osc_grain, after_inputs, handled, panicked, playerVars,
                   iterVars, smpVars, nrm, fx, bld, valVars, heapVars>>

SampleCallNext == OscNextGrain \/ OscNextSample

SpecSampleCall == SampleCallInit /\ [][SampleCallNext]_vars

\* C36: a next_sample call adds exactly 1 / SAMPLE_RATE to secs_since_start
\* in every state of the oscillator; on an Idle oscillator it returns 0.0
\* and changes nothing else: not the phase, not the index, not the
\* waveform.
C36_IdleSample ==
    fx_out # <<>> =>
        /\ fx_out.after.secs_since_start
              = fx_out.before.secs_since_start + Dt
        /\ fx_out.before.state = Idle =>
              /\ fx_out.value = 0
              /\ fx_out.after
                    = [fx_out.before EXCEPT !.secs_since_start = @ + Dt]

\* next_sample was called on an oscillator that had sounded and was Idle
\* again
C36_Witness ==
    /\ fx_out # <<>>
    /\ fx_out.before.state = Idle
    /\ fx_out.before.phase # 0
    /\ fx_out.before.secs_since_start > 0

(***************************************************************************)
(* effects.rs: TapeDelays of two, three and four samples with wow and      *)
(* flutter ranges of none, half and all of the read delay, with a mix and  *)
(* a feedback inside [0, 1], fed one sample after another.                 *)
(***************************************************************************)
RangeFractions == {0, Frac(1, 2), Q}

TapeInit ==
    /\ \E d \in {Frac(1, 2), Frac(3, 4), Q},
          w \in RangeFractions, f \in RangeFractions :
          fx = TapeDelay_new(d, Number_number(Frac(1, 2)),
                             Number_number(Frac(1, 2)), w, Frac(1, 2), f, Q)
    /\ fx_out = [calls |-> 0, value |-> None, delay_sample |-> 0,
                 indexed |-> FALSE, heard |-> FALSE]
    /\ panicked = FALSE
    /\ PlayerAbsent /\ OscAbsent /\ IterAbsent /\ SmpAbsent
    /\ NrmAbsent /\ BldAbsent /\ ValAbsent /\ HeapAbsent

SpecTape == TapeInit /\ [][FillNext]_vars

\* the buffer is long enough for process_sample to read from it
BufferFilled == Frac(Len(fx.buffer), SAMPLE_RATE) >= fx.read_delay

\* the buffer is never longer than floor(read_delay * SAMPLE_RATE)
BufferBounded == Len(fx.buffer) <= AsUsize(fx.read_delay * SAMPLE_RATE)

\* C37: for a TapeDelay with a positive read delay and wow and flutter
\* range fractions in [0, 1], in every state the buffer has at most
\* floor(read_delay * SAMPLE_RATE) samples, and when process_sample reads
\* from the buffer, the index of read_sample_from_buffer is inside the
\* buffer: no call fails.
C37_ReadsInBounds ==
    /\ BufferBounded
    /\ BufferFilled => ~TapeDelay_read_sample_from_buffer(fx, 0).panic
    /\ ~panicked

\* what holds: the bound of the buffer, and the reads of a TapeDelay
\* without wow and flutter
C37_BoundedAndPlainReads ==
    /\ BufferBounded
    /\ fx.extra_space = 0 =>
          /\ ~panicked
          /\ BufferFilled => ~TapeDelay_read_sample_from_buffer(fx, 0).panic

====
